---- MODULE Spec2Model ----
(***************************************************************************)
(* Model of the rate-me server: the in-memory storage (MemStorage), the    *)
(* session identities set up by passport, and the HTTP routes that mutate  *)
(* or read the rating ledger.                                              *)
(*                                                                         *)
(* A JavaScript Map keyed by an auto-increment id is a function whose      *)
(* domain is the set of live ids.  Keys are handed out by a counter that   *)
(* only grows and Map.set of a live key keeps its place, so the Map's      *)
(* iteration order is ascending id.                                        *)
(***************************************************************************)
EXTENDS Integers, Sequences, FiniteSets, TLC

VARIABLES students, studentCounter, users, rooms, roomCounter,
          roomAssignments, roomAssignmentCounter,
          questions, questionCounter, ratings, ratingCounter,
          sessions, resp, inflight, page

vars == <<students, studentCounter, users, rooms, roomCounter,
          roomAssignments, roomAssignmentCounter,
          questions, questionCounter, ratings, ratingCounter,
          sessions, resp, inflight, page>>

\* the fields of MemStorage
storageVars == <<students, studentCounter, users, rooms, roomCounter,
                 roomAssignments, roomAssignmentCounter,
                 questions, questionCounter, ratings, ratingCounter>>

(***************************************************************************)
(* Bounds of the model.                                                    *)
(***************************************************************************)
MaxStudents == 2
MaxRooms == 1
MaxQuestions == 1
MaxRatings == 2
MaxRank == 1
MaxInFlight == 2
MaxAssignments == 2
MaxDirRooms == 2

(***************************************************************************)
(* Values a request can carry.                                             *)
(***************************************************************************)
Undefined == [undefined |-> TRUE]
NoSession == [type |-> "none", id |-> 0]

\* no browser has the student rating page open
NoPage == [mounted |-> FALSE]

StudentInputs ==
    { [studentNumber |-> "S1", name |-> "Ann", email |-> "ann@x"],
      [studentNumber |-> "S2", name |-> "Bob", email |-> "bob@x"] }

RoomInputs == { [roomName |-> "R", branch |-> "B", section |-> "A"] }

\* the ids a request can name: those the storage can have handed out and,
\* for rooms and questions, one more that it never has
StudentIdsIn == 1..MaxStudents
RoomIdsIn == 1..(MaxRooms + 1)
QuestionIdsIn == 1..(MaxQuestions + 1)
Ranks == 0..MaxRank

QuestionInputs == [roomId : RoomIdsIn, questionText : {"Q"}]

\* req.body of POST /api/ratings: with every field, or with no rank; the
\* raterId it carries is student 1's, whoever sends it
RatingBodies ==
    [roomId : RoomIdsIn, questionId : QuestionIdsIn, studentId : StudentIdsIn,
     raterId : {1}, rank : Ranks]
    \cup [roomId : {1}, questionId : {1}, studentId : {1}, raterId : {1}]

(***************************************************************************)
(* Map helpers.                                                            *)
(***************************************************************************)
EmptyMap == << >>

MapSet(m, k, v) == [x \in (DOMAIN m) \cup {k} |-> IF x = k THEN v ELSE m[x]]

MapDelete(m, k) == [x \in (DOMAIN m) \ {k} |-> m[x]]

MapDeleteAll(m, ks) == [x \in (DOMAIN m) \ ks |-> m[x]]

MinOf(S) == CHOOSE x \in S : \A y \in S : x <= y

RECURSIVE SortedIds(_)
SortedIds(S) == IF S = {} THEN << >>
                ELSE LET k == MinOf(S) IN <<k>> \o SortedIds(S \ {k})

\* Array.from(map.values()): the values in insertion order
MapValues(m) == LET ks == SortedIds(DOMAIN m) IN [i \in 1..Len(ks) |-> m[ks[i]]]

\* Array.prototype.find: the first element satisfying the test, or undefined;
\* passing is the set of the values that satisfy the test
FindFirst(seq, passing) ==
    IF \E i \in 1..Len(seq) : seq[i] \in passing
    THEN seq[MinOf({i \in 1..Len(seq) : seq[i] \in passing})]
    ELSE Undefined

\* { ...rating, ...data }: the fields of data over those of the stored object
Spread(rating, data) ==
    [f \in (DOMAIN rating) \cup (DOMAIN data) |->
        IF f \in DOMAIN data THEN data[f] ELSE rating[f]]

\* new Date(): a logical clock, the number of ids the storage has handed out;
\* it never runs backwards and every timestamped insert advances it
Now == studentCounter + roomCounter + roomAssignmentCounter + questionCounter
       + ratingCounter

(***************************************************************************)
(* MemStorage: students and users.                                         *)
(***************************************************************************)
getStudent(sts, id) == IF id \in DOMAIN sts THEN sts[id] ELSE Undefined

getStudentByNumber(sts, studentNumber) ==
    LET all == MapValues(sts)
    IN FindFirst(all, {s \in {all[i] : i \in DOMAIN all} :
                          s.studentNumber = studentNumber})

\* the lookup by email that compares the student number instead
getStudentByEmailAsNumber(sts, email) ==
    LET all == MapValues(sts)
    IN FindFirst(all, {s \in {all[i] : i \in DOMAIN all} :
                          s.studentNumber = email})

getStudentByEmail(sts, email) ==
    LET all == MapValues(sts)
    IN FindFirst(all, {s \in {all[i] : i \in DOMAIN all} : s.email = email})

createStudent(sts, id, student) ==
    MapSet(sts, id, [id |-> id, studentNumber |-> student.studentNumber,
                     name |-> student.name, email |-> student.email,
                     isRegistered |-> FALSE])

\* updateStudent(id, { isRegistered }), the one use the server makes of it
updateStudent(sts, id, isRegistered) ==
    IF id \notin DOMAIN sts THEN sts
    ELSE [sts EXCEPT ![id].isRegistered = isRegistered]

resetStudentRegistration(sts, id) ==
    IF id \notin DOMAIN sts THEN sts
    ELSE [sts EXCEPT ![id].isRegistered = FALSE]

\* the room assignments left once those of student id are deleted
deleteStudentAssignments(ras, id) ==
    MapDeleteAll(ras, {a \in DOMAIN ras : ras[a].studentId = id})

deleteStudent(sts, id) == MapDelete(sts, id)

getUser(us, id) == IF id \in DOMAIN us THEN us[id] ELSE Undefined

getUserByUsername(us, username) ==
    LET all == MapValues(us)
    IN FindFirst(all, {u \in {all[i] : i \in DOMAIN all} : u.username = username})

(***************************************************************************)
(* MemStorage: rooms and questions.                                        *)
(***************************************************************************)
getRoom(rms, id) == IF id \in DOMAIN rms THEN rms[id] ELSE Undefined

createRoom(rms, id, room) ==
    MapSet(rms, id, [id |-> id, roomName |-> room.roomName,
                     branch |-> room.branch, section |-> room.section])

updateRoom(rms, id, data) ==
    IF id \notin DOMAIN rms THEN rms
    ELSE MapSet(rms, id, Spread(rms[id], data))

\* deleteRoom, the assignments it leaves
deleteRoomAssignments(ras, id) ==
    MapDeleteAll(ras, {a \in DOMAIN ras : ras[a].roomId = id})

\* deleteRoom, the questions of the room
roomQuestionIds(qs, id) == {q \in DOMAIN qs : qs[q].roomId = id}

\* deleteRoom, the ratings it leaves: those of no question of the room
\* the cascade that picks the ratings by their roomId, not by the questions
deleteRoomRatingsByRoom(rs, qs, id) ==
    MapDeleteAll(rs, {r \in DOMAIN rs : rs[r].roomId = id})

deleteRoomRatings(rs, qs, id) ==
    MapDeleteAll(rs, {r \in DOMAIN rs : rs[r].questionId \in roomQuestionIds(qs, id)})

deleteRoomQuestions(qs, id) == MapDeleteAll(qs, roomQuestionIds(qs, id))

\* the removal that takes the student's id for an assignment's id
removeAssignmentsById(ras, studentId) ==
    MapDeleteAll(ras, {a \in DOMAIN ras : ras[a].id = studentId})

\* assignStudentToRoom, first part: the student leaves every room
removeExistingAssignments(ras, studentId) ==
    MapDeleteAll(ras, {a \in DOMAIN ras : ras[a].studentId = studentId})

assignStudentToRoom(ras, id, now, roomAssignment) ==
    MapSet(removeExistingAssignments(ras, roomAssignment.studentId), id,
           [id |-> id, roomId |-> roomAssignment.roomId,
            studentId |-> roomAssignment.studentId, assignedAt |-> now])

\* removeStudentFromRoom: the first assignment of the pair goes, if any
removeStudentFromRoom(ras, roomId, studentId) ==
    LET all == MapValues(ras)
        assignment == FindFirst(all, {a \in {all[i] : i \in DOMAIN all} :
                                         /\ a.roomId = roomId
                                         /\ a.studentId = studentId})
    IN IF assignment = Undefined THEN ras ELSE MapDelete(ras, assignment.id)

createQuestion(qs, id, question) ==
    MapSet(qs, id, [id |-> id, roomId |-> question.roomId,
                    questionText |-> question.questionText])

updateQuestion(qs, id, data) ==
    IF id \notin DOMAIN qs THEN qs
    ELSE [qs EXCEPT ![id].roomId = data.roomId,
                    ![id].questionText = data.questionText]

\* deleteQuestion, the ratings it leaves
\* the cascade that picks the ratings by their roomId
deleteQuestionRatingsByRoom(rs, id) ==
    MapDeleteAll(rs, {k \in DOMAIN rs : rs[k].roomId = id})

deleteQuestionRatings(rs, id) ==
    MapDeleteAll(rs, {r \in DOMAIN rs : rs[r].questionId = id})

deleteQuestion(qs, id) == MapDelete(qs, id)

(***************************************************************************)
(* MemStorage: the rating ledger.                                          *)
(***************************************************************************)
createRating(rs, id, now, rating) ==
    MapSet(rs, id, [id |-> id, roomId |-> rating.roomId,
                    questionId |-> rating.questionId,
                    studentId |-> rating.studentId,
                    raterId |-> rating.raterId, rank |-> rating.rank,
                    createdAt |-> now])

\* the lookup with the rated student and the rater taken for each other
getRatingByRaterAndQuestion(rs, studentId, questionId, raterId) ==
    LET all == MapValues(rs)
    IN FindFirst(all, {r \in {all[i] : i \in DOMAIN all} :
                          /\ r.studentId = raterId
                          /\ r.questionId = questionId
                          /\ r.raterId = studentId})

getRatingByStudentAndQuestion(rs, studentId, questionId, raterId) ==
    LET all == MapValues(rs)
    IN FindFirst(all, {r \in {all[i] : i \in DOMAIN all} :
                          /\ r.studentId = studentId
                          /\ r.questionId = questionId
                          /\ r.raterId = raterId})

updateRating(rs, id, data) ==
    IF id \notin DOMAIN rs THEN rs ELSE MapSet(rs, id, Spread(rs[id], data))

(***************************************************************************)
(* MemStorage.getLeaderboard.  A JavaScript number that is a quotient of   *)
(* two small integers is kept as the fraction in lowest terms, so equal    *)
(* averages are equal values and the comparator's sign is exact.           *)
(***************************************************************************)
RECURSIVE Gcd(_, _)
Gcd(a, b) == IF b = 0 THEN a ELSE Gcd(b, a % b)

\* total / count, count > 0, total >= 0
Divide(total, count) ==
    LET g == Gcd(total, count) IN [num |-> total \div g, den |-> count \div g]

\* the sign of x - y
Minus(x, y) == x.num * y.den - y.num * x.den

\* an optional query parameter: ?questionId=n, or none
NoQuestion == [given |-> FALSE, id |-> 0]
SomeQuestion(q) == [given |-> TRUE, id |-> q]

\* JavaScript truthiness of an optional number: undefined and 0 are falsy
Truthy(questionId) == questionId.given /\ questionId.id # 0

filteredRatings(rs, roomId, questionId) ==
    IF Truthy(questionId)
    THEN SelectSeq(MapValues(rs),
                   LAMBDA r : r.roomId = roomId /\ r.questionId = questionId.id)
    ELSE SelectSeq(MapValues(rs), LAMBDA r : r.roomId = roomId)

\* the keys of the studentRatings Map, in insertion order: the rated
\* students in the order of their first rating
RECURSIVE studentKeys(_)
studentKeys(seq) ==
    IF seq = << >> THEN << >>
    ELSE LET init == studentKeys(SubSeq(seq, 1, Len(seq) - 1))
             sid == seq[Len(seq)].studentId
         IN IF \E i \in 1..Len(init) : init[i] = sid
            THEN init ELSE Append(init, sid)

\* studentRatings.get(sid): the ranks student sid received
studentRanks(seq, sid) ==
    LET own == SelectSeq(seq, LAMBDA r : r.studentId = sid)
    IN [i \in 1..Len(own) |-> own[i].rank]

\* ratings.reduce((sum, rating) => sum + rating, 0)
RECURSIVE reduceSum(_)
reduceSum(ranks) ==
    IF ranks = << >> THEN 0
    ELSE reduceSum(SubSeq(ranks, 1, Len(ranks) - 1)) + ranks[Len(ranks)]

\* the average taken over every selected rating, not the student's own
studentScoreOverAll(seq, sid) ==
    LET ranks == studentRanks(seq, sid)
        totalRating == reduceSum(ranks)
    IN [studentId |-> sid, totalRating |-> totalRating,
        averageRating |-> Divide(totalRating, Len(seq))]

studentScore(seq, sid) ==
    LET ranks == studentRanks(seq, sid)
        totalRating == reduceSum(ranks)
    IN [studentId |-> sid, totalRating |-> totalRating,
        averageRating |-> Divide(totalRating, Len(ranks))]

studentScores(seq) ==
    LET keys == studentKeys(seq)
    IN [i \in 1..Len(keys) |-> studentScore(seq, keys[i])]

\* the sort with the comparator turned round: a.averageRating - b.averageRating
RECURSIVE sortScoresAscending(_)
sortScoresAscending(scores) ==
    IF scores = << >> THEN << >>
    ELSE LET init == sortScoresAscending(SubSeq(scores, 1, Len(scores) - 1))
             x == scores[Len(scores)]
             later == {i \in 1..Len(init) :
                         Minus(init[i].averageRating, x.averageRating) > 0}
             at == IF later = {} THEN Len(init) + 1 ELSE MinOf(later)
         IN SubSeq(init, 1, at - 1) \o <<x>> \o SubSeq(init, at, Len(init))

\* studentScores.sort((a, b) => b.averageRating - a.averageRating): the sort
\* is stable, so it is an insertion of each score behind every score that the
\* comparator does not put after it
RECURSIVE sortScores(_)
sortScores(scores) ==
    IF scores = << >> THEN << >>
    ELSE LET init == sortScores(SubSeq(scores, 1, Len(scores) - 1))
             x == scores[Len(scores)]
             \* x goes before the first score it is strictly greater than
             later == {i \in 1..Len(init) :
                         Minus(x.averageRating, init[i].averageRating) > 0}
             at == IF later = {} THEN Len(init) + 1 ELSE MinOf(later)
         IN SubSeq(init, 1, at - 1) \o <<x>> \o SubSeq(init, at, Len(init))

\* the loop that builds the entries: a score whose student is gone is skipped
RECURSIVE leaderboardEntries(_, _, _)
leaderboardEntries(scores, sts, n) ==
    IF n = 0 THEN << >>
    ELSE LET init == leaderboardEntries(scores, sts, n - 1)
             score == scores[n]
         IN IF score.studentId \in DOMAIN sts
            THEN Append(init, [rank |-> n, student |-> sts[score.studentId],
                               totalRating |-> score.totalRating,
                               averageRating |-> score.averageRating])
            ELSE init

getLeaderboard(rs, sts, roomId, questionId) ==
    LET sorted == sortScores(studentScores(filteredRatings(rs, roomId, questionId)))
    IN leaderboardEntries(sorted, sts, Len(sorted))

(***************************************************************************)
(* Identities: passport's session records and the route guards.            *)
(***************************************************************************)
\* serializeUser: what a login stores in the session
serializeUser(user) ==
    IF "studentNumber" \in DOMAIN user /\ user.studentNumber # ""
    THEN [type |-> "student", id |-> user.id]
    ELSE [type |-> "admin", id |-> user.id]

\* a lookup by id alone: among the users first, then among the students
deserializeUserById(data, sts, us) ==
    IF data.type \notin {"student", "admin"} THEN Undefined
    ELSE IF getUser(us, data.id) # Undefined THEN getUser(us, data.id)
    ELSE getStudent(sts, data.id)

\* deserializeUser: req.user of a request carrying session data
deserializeUser(data, sts, us) ==
    IF data.type = "student" THEN getStudent(sts, data.id)
    ELSE IF data.type = "admin" THEN getUser(us, data.id)
    ELSE Undefined

\* req.isAuthenticated(): the session resolved to a user
isAuthenticated(user) == user # Undefined

\* a guard that lets every logged-in user through
isAdminOrStudent(user) == isAuthenticated(user)

\* the isAdmin guard of the admin routes
isAdmin(user) ==
    isAuthenticated(user) /\ "isAdmin" \in DOMAIN user /\ user.isAdmin

\* the student check done on user.id, which an admin has too
hasId(user) == "id" \in DOMAIN user

\* user.studentNumber is truthy
hasStudentNumber(user) ==
    "studentNumber" \in DOMAIN user /\ user.studentNumber # ""

\* the sessions a request can carry: none, or one a login has set up
Callers == {NoSession} \cup sessions

reqUser(c) == deserializeUser(c, students, users)

Reply(op, status) == [op |-> op, status |-> status]

(***************************************************************************)
(* The state after construction: empty maps, counters at 1, the default    *)
(* admin user, no session.                                                 *)
(***************************************************************************)
adminUser == [id |-> 1, username |-> "admin", password |-> "adminpassword",
              isAdmin |-> TRUE]

Init ==
    /\ students = EmptyMap /\ studentCounter = 1
    /\ users = MapSet(EmptyMap, adminUser.id, adminUser)
    /\ rooms = EmptyMap /\ roomCounter = 1
    /\ roomAssignments = EmptyMap /\ roomAssignmentCounter = 1
    /\ questions = EmptyMap /\ questionCounter = 1
    /\ ratings = EmptyMap /\ ratingCounter = 1
    /\ sessions = {}
    /\ resp = Reply("none", 0)
    /\ inflight = << >>
    /\ page = NoPage

(***************************************************************************)
(* Logins.                                                                 *)
(***************************************************************************)
\* comparePasswords for a stored password that holds no salt
comparePasswords(supplied, stored) == supplied = stored

\* POST /api/admin/login
AdminLogin(username, password) ==
    /\ LET user == getUserByUsername(users, username)
       IN /\ IF user = Undefined \/ ~comparePasswords(password, user.password)
             THEN /\ resp' = Reply("adminLogin", 401)
                  /\ UNCHANGED sessions
             ELSE IF ~user.isAdmin
             THEN /\ resp' = Reply("adminLogin", 403)
                  /\ UNCHANGED sessions
             ELSE /\ sessions' = sessions \cup {serializeUser(user)}
                  /\ resp' = Reply("adminLogin", 200)
          /\ UNCHANGED <<storageVars, inflight>>
    /\ UNCHANGED page

toLowerCase(name) ==
    CASE name = "Ann" -> "ann" [] name = "Bob" -> "bob" [] OTHER -> name

\* POST /api/student/login: the student strategy, then req.login
StudentLogin(studentNumber, email, name) ==
    /\ LET student == getStudentByNumber(students, studentNumber)
       IN /\ IF \/ student = Undefined
                \/ student.email # email
                \/ student.isRegistered
                \/ toLowerCase(name) # toLowerCase(student.name)
             THEN /\ resp' = Reply("studentLogin", 401)
                  /\ UNCHANGED <<students, sessions>>
             ELSE /\ students' = updateStudent(students, student.id, TRUE)
                  /\ sessions' = sessions \cup {serializeUser(student)}
                  /\ resp' = Reply("studentLogin", 200)
          /\ UNCHANGED <<studentCounter, users, rooms, roomCounter, roomAssignments,
                         roomAssignmentCounter, questions, questionCounter, ratings,
                         ratingCounter, inflight>>
    /\ UNCHANGED page

\* POST /api/logout: req.logout ends the session the request carries
Logout(c) ==
    /\ sessions' = sessions \ {c}
    /\ resp' = Reply("logout", 200)
    /\ UNCHANGED <<storageVars, inflight>>
    /\ UNCHANGED page

(***************************************************************************)
(* The admin routes over students, rooms and questions.                    *)
(***************************************************************************)
\* POST /api/students
CreateStudent(c, data) ==
    /\ IF ~isAdmin(reqUser(c))
       THEN /\ resp' = Reply("createStudent", 403)
            /\ UNCHANGED <<students, studentCounter>>
       ELSE IF \/ getStudentByNumber(students, data.studentNumber) # Undefined
               \/ getStudentByEmail(students, data.email) # Undefined
       THEN /\ resp' = Reply("createStudent", 400)
            /\ UNCHANGED <<students, studentCounter>>
       ELSE /\ studentCounter <= MaxStudents
            /\ students' = createStudent(students, studentCounter, data)
            /\ studentCounter' = studentCounter + 1
            /\ resp' = Reply("createStudent", 201)
    /\ UNCHANGED <<users, rooms, roomCounter, roomAssignments,
                   roomAssignmentCounter, questions, questionCounter, ratings,
                   ratingCounter, sessions, inflight>>
    /\ UNCHANGED page

\* POST /api/students/import, from the rows extractStudentsFromExcel found:
\* the loop over the rows, a row whose number or email is taken is skipped
RECURSIVE importStudents(_, _, _)
importStudents(sts, counter, rows) ==
    IF rows = << >>
    THEN [students |-> sts, counter |-> counter, imported |-> 0, skipped |-> 0]
    ELSE LET before == importStudents(sts, counter,
                                      SubSeq(rows, 1, Len(rows) - 1))
             student == rows[Len(rows)]
         IN IF \/ getStudentByNumber(before.students,
                                     student.studentNumber) # Undefined
               \/ getStudentByEmail(before.students, student.email) # Undefined
            THEN [before EXCEPT !.skipped = @ + 1]
            ELSE [students |-> createStudent(before.students, before.counter,
                                             student),
                  counter |-> before.counter + 1,
                  imported |-> before.imported + 1,
                  skipped |-> before.skipped]

ImportStudents(c, rows) ==
    /\ IF ~isAdmin(reqUser(c))
       THEN /\ resp' = Reply("importStudents", 403)
            /\ UNCHANGED <<students, studentCounter>>
       ELSE IF Len(rows) = 0
       THEN /\ resp' = Reply("importStudents", 400)
            /\ UNCHANGED <<students, studentCounter>>
       ELSE LET out == importStudents(students, studentCounter, rows)
            IN /\ out.counter <= MaxStudents + 1
               /\ students' = out.students
               /\ studentCounter' = out.counter
               /\ resp' = [op |-> "importStudents", status |-> 200,
                           total |-> Len(rows), imported |-> out.imported,
                           skipped |-> out.skipped]
    /\ UNCHANGED <<users, rooms, roomCounter, roomAssignments,
                   roomAssignmentCounter, questions, questionCounter, ratings,
                   ratingCounter, sessions, inflight>>
    /\ UNCHANGED page

\* importPredefinedExcelFiles, the loop over the students of one file: a
\* student whose number is stored is passed over, any other is created
RECURSIVE importFile(_, _, _)
importFile(sts, counter, rows) ==
    IF rows = << >>
    THEN [students |-> sts, counter |-> counter, importedCount |-> 0]
    ELSE LET before == importFile(sts, counter, SubSeq(rows, 1, Len(rows) - 1))
             student == rows[Len(rows)]
         IN IF getStudentByNumber(before.students,
                                  student.studentNumber) # Undefined
            THEN before
            ELSE [students |-> createStudent(before.students, before.counter,
                                             student),
                  counter |-> before.counter + 1,
                  importedCount |-> before.importedCount + 1]

\* importPredefinedExcelFiles(storage), the two files holding these rows
ImportPredefinedExcelFiles(first, second) ==
    /\ LET one == importFile(students, studentCounter, first)
           two == importFile(one.students, one.counter, second)
       IN /\ two.counter <= MaxStudents + 1
          /\ students' = two.students
          /\ studentCounter' = two.counter
          /\ resp' = [op |-> "importPredefinedExcelFiles", status |-> 0,
                      totalImported |-> one.importedCount + two.importedCount]
          /\ UNCHANGED <<users, rooms, roomCounter, roomAssignments,
                         roomAssignmentCounter, questions, questionCounter,
                         ratings, ratingCounter, sessions, inflight>>
    /\ UNCHANGED page

\* POST /api/students/:id/reset
ResetStudent(c, id) ==
    /\ IF ~isAdmin(reqUser(c))
       THEN /\ resp' = Reply("resetStudent", 403)
            /\ UNCHANGED students
       ELSE /\ students' = resetStudentRegistration(students, id)
            /\ resp' = Reply("resetStudent",
                             IF id \in DOMAIN students THEN 200 ELSE 404)
    /\ UNCHANGED <<studentCounter, users, rooms, roomCounter, roomAssignments,
                   roomAssignmentCounter, questions, questionCounter, ratings,
                   ratingCounter, sessions, inflight>>
    /\ UNCHANGED page

\* the delete that takes the student's ratings along
DeleteStudentWithRatings(c, id) ==
    /\ IF ~isAdmin(reqUser(c))
       THEN /\ resp' = Reply("deleteStudent", 403)
            /\ UNCHANGED <<students, roomAssignments, ratings>>
       ELSE /\ roomAssignments' = deleteStudentAssignments(roomAssignments, id)
            /\ ratings' = MapDeleteAll(ratings,
                              {r \in DOMAIN ratings : ratings[r].studentId = id})
            /\ students' = deleteStudent(students, id)
            /\ resp' = Reply("deleteStudent",
                             IF id \in DOMAIN students THEN 204 ELSE 404)
    /\ UNCHANGED <<studentCounter, users, rooms, roomCounter,
                   roomAssignmentCounter, questions, questionCounter,
                   ratingCounter, sessions, inflight>>
    /\ UNCHANGED page

\* DELETE /api/students/:id
DeleteStudent(c, id) ==
    /\ IF ~isAdmin(reqUser(c))
       THEN /\ resp' = Reply("deleteStudent", 403)
            /\ UNCHANGED <<students, roomAssignments>>
       ELSE /\ roomAssignments' = deleteStudentAssignments(roomAssignments, id)
            /\ students' = deleteStudent(students, id)
            /\ resp' = Reply("deleteStudent",
                             IF id \in DOMAIN students THEN 204 ELSE 404)
    /\ UNCHANGED <<studentCounter, users, rooms, roomCounter,
                   roomAssignmentCounter, questions, questionCounter, ratings,
                   ratingCounter, sessions, inflight>>
    /\ UNCHANGED page

\* POST /api/rooms
CreateRoom(c, data) ==
    /\ IF ~isAdmin(reqUser(c))
       THEN /\ resp' = Reply("createRoom", 403)
            /\ UNCHANGED <<rooms, roomCounter>>
       ELSE /\ roomCounter <= MaxRooms
            /\ rooms' = createRoom(rooms, roomCounter, data)
            /\ roomCounter' = roomCounter + 1
            /\ resp' = Reply("createRoom", 201)
    /\ UNCHANGED <<students, studentCounter, users, roomAssignments,
                   roomAssignmentCounter, questions, questionCounter, ratings,
                   ratingCounter, sessions, inflight>>
    /\ UNCHANGED page

\* PUT /api/rooms/:id
UpdateRoom(c, id, data) ==
    /\ IF ~isAdmin(reqUser(c))
       THEN /\ resp' = Reply("updateRoom", 403)
            /\ UNCHANGED rooms
       ELSE /\ rooms' = updateRoom(rooms, id, data)
            /\ resp' = Reply("updateRoom",
                             IF id \in DOMAIN rooms THEN 200 ELSE 404)
    /\ UNCHANGED <<students, studentCounter, users, roomCounter,
                   roomAssignments, roomAssignmentCounter, questions,
                   questionCounter, ratings, ratingCounter, sessions, inflight>>
    /\ UNCHANGED page

\* DELETE /api/rooms/:id
DeleteRoom(c, id) ==
    /\ IF ~isAdmin(reqUser(c))
       THEN /\ resp' = Reply("deleteRoom", 403)
            /\ UNCHANGED <<rooms, roomAssignments, questions, ratings>>
       ELSE /\ roomAssignments' = deleteRoomAssignments(roomAssignments, id)
            /\ ratings' = deleteRoomRatings(ratings, questions, id)
            /\ questions' = deleteRoomQuestions(questions, id)
            /\ rooms' = MapDelete(rooms, id)
            /\ resp' = Reply("deleteRoom",
                             IF id \in DOMAIN rooms THEN 204 ELSE 404)
    /\ UNCHANGED <<students, studentCounter, users, roomCounter,
                   roomAssignmentCounter, questionCounter, ratingCounter,
                   sessions, inflight>>
    /\ UNCHANGED page

\* POST /api/rooms/:roomId/students/:studentId
AssignStudentToRoom(c, roomId, studentId) ==
    /\ IF ~isAdmin(reqUser(c))
       THEN /\ resp' = Reply("assignStudentToRoom", 403)
            /\ UNCHANGED <<roomAssignments, roomAssignmentCounter>>
       ELSE IF \/ getRoom(rooms, roomId) = Undefined
               \/ getStudent(students, studentId) = Undefined
       THEN /\ resp' = Reply("assignStudentToRoom", 404)
            /\ UNCHANGED <<roomAssignments, roomAssignmentCounter>>
       ELSE /\ roomAssignmentCounter <= MaxAssignments
            /\ roomAssignments' =
                   assignStudentToRoom(roomAssignments, roomAssignmentCounter,
                                       Now, [roomId |-> roomId,
                                             studentId |-> studentId])
            /\ roomAssignmentCounter' = roomAssignmentCounter + 1
            /\ resp' = [op |-> "assignStudentToRoom", status |-> 201,
                        body |-> roomAssignments'[roomAssignmentCounter]]
    /\ UNCHANGED <<students, studentCounter, users, rooms, roomCounter,
                   questions, questionCounter, ratings, ratingCounter,
                   sessions, inflight>>
    /\ UNCHANGED page

\* DELETE /api/rooms/:roomId/students/:studentId
RemoveStudentFromRoom(c, roomId, studentId) ==
    /\ IF ~isAdmin(reqUser(c))
       THEN /\ resp' = Reply("removeStudentFromRoom", 403)
            /\ UNCHANGED roomAssignments
       ELSE /\ roomAssignments' =
                   removeStudentFromRoom(roomAssignments, roomId, studentId)
            /\ resp' = Reply("removeStudentFromRoom",
                             IF roomAssignments' # roomAssignments
                             THEN 204 ELSE 404)
    /\ UNCHANGED <<students, studentCounter, users, rooms, roomCounter,
                   roomAssignmentCounter, questions, questionCounter, ratings,
                   ratingCounter, sessions, inflight>>
    /\ UNCHANGED page

\* POST /api/questions
CreateQuestion(c, data) ==
    /\ IF ~isAdmin(reqUser(c))
       THEN /\ resp' = Reply("createQuestion", 403)
            /\ UNCHANGED <<questions, questionCounter>>
       ELSE IF getRoom(rooms, data.roomId) = Undefined
       THEN /\ resp' = Reply("createQuestion", 404)
            /\ UNCHANGED <<questions, questionCounter>>
       ELSE /\ questionCounter <= MaxQuestions
            /\ questions' = createQuestion(questions, questionCounter, data)
            /\ questionCounter' = questionCounter + 1
            /\ resp' = Reply("createQuestion", 201)
    /\ UNCHANGED <<students, studentCounter, users, rooms, roomCounter,
                   roomAssignments, roomAssignmentCounter, ratings,
                   ratingCounter, sessions, inflight>>
    /\ UNCHANGED page

\* PUT /api/questions/:id
UpdateQuestion(c, id, data) ==
    /\ IF ~isAdmin(reqUser(c))
       THEN /\ resp' = Reply("updateQuestion", 403)
            /\ UNCHANGED questions
       ELSE IF getRoom(rooms, data.roomId) = Undefined
       THEN /\ resp' = Reply("updateQuestion", 404)
            /\ UNCHANGED questions
       ELSE /\ questions' = updateQuestion(questions, id, data)
            /\ resp' = Reply("updateQuestion",
                             IF id \in DOMAIN questions THEN 200 ELSE 404)
    /\ UNCHANGED <<students, studentCounter, users, rooms, roomCounter,
                   roomAssignments, roomAssignmentCounter, questionCounter,
                   ratings, ratingCounter, sessions, inflight>>
    /\ UNCHANGED page

\* DELETE /api/questions/:id
DeleteQuestion(c, id) ==
    /\ IF ~isAdmin(reqUser(c))
       THEN /\ resp' = Reply("deleteQuestion", 403)
            /\ UNCHANGED <<questions, ratings>>
       ELSE /\ ratings' = deleteQuestionRatings(ratings, id)
            /\ questions' = deleteQuestion(questions, id)
            /\ resp' = Reply("deleteQuestion",
                             IF id \in DOMAIN questions THEN 204 ELSE 404)
    /\ UNCHANGED <<students, studentCounter, users, rooms, roomCounter,
                   roomAssignments, roomAssignmentCounter, questionCounter,
                   ratingCounter, sessions, inflight>>
    /\ UNCHANGED page

(***************************************************************************)
(* POST /api/ratings and GET /api/rooms/:id/leaderboard.                   *)
(***************************************************************************)
\* insertRatingSchema.parse(req.body) does not throw: every column of the
\* ratings table but id and createdAt is there and is an integer
insertRatingSchema(body) ==
    \A f \in {"roomId", "questionId", "studentId", "raterId", "rank"} :
        f \in DOMAIN body /\ body[f] \in Int

\* the rater left as the body gave it
keepRater(validatedData, user) == validatedData

\* validatedData.raterId = user.id
stampRater(validatedData, user) == [validatedData EXCEPT !.raterId = user.id]

\* updateRating handed the whole of validatedData
wholeData(validatedData) == validatedData

\* the second argument of updateRating: { rank: validatedData.rank }
rankOnly(validatedData) == [rank |-> validatedData.rank]

\* the handler of POST /api/ratings run from its first line to its response:
\* the status it answers and the ledger it leaves
submitRating(rs, counter, now, user, body) ==
    IF ~isAuthenticated(user) THEN [status |-> 401, ratings |-> rs]
    ELSE IF ~hasStudentNumber(user) THEN [status |-> 403, ratings |-> rs]
    ELSE IF ~insertRatingSchema(body) THEN [status |-> 400, ratings |-> rs]
    ELSE LET validatedData == stampRater(body, user)
             existingRating ==
                 getRatingByStudentAndQuestion(rs, validatedData.studentId,
                                               validatedData.questionId, user.id)
         IN IF existingRating # Undefined
            THEN [status |-> 200,
                  ratings |-> updateRating(rs, existingRating.id,
                                           rankOnly(validatedData))]
            ELSE [status |-> 201,
                  ratings |-> createRating(rs, counter, now, validatedData)]

SubmitRating(c, body) ==
    /\ LET out == submitRating(ratings, ratingCounter, Now, reqUser(c), body)
       IN /\ out.status = 201 => ratingCounter <= MaxRatings
          /\ ratings' = out.ratings
          /\ ratingCounter' = IF out.status = 201 THEN ratingCounter + 1
                              ELSE ratingCounter
          /\ resp' = Reply("submitRating", out.status)
          /\ UNCHANGED <<students, studentCounter, users, rooms, roomCounter,
                         roomAssignments, roomAssignmentCounter, questions,
                         questionCounter, sessions, inflight>>
    /\ UNCHANGED page

\* the questionId a leaderboard request can carry: none, or ?questionId=n
QuestionQueries == {NoQuestion} \cup {SomeQuestion(q) : q \in 0..MaxQuestions}

\* the leaderboard read that also drops the ratings of students that are gone
GetLeaderboardPruning(c, roomId, questionId) ==
    /\ IF ~isAuthenticated(reqUser(c))
       THEN /\ resp' = Reply("getLeaderboard", 401)
            /\ UNCHANGED ratings
       ELSE /\ resp' = [op |-> "getLeaderboard", status |-> 200,
                        roomId |-> roomId, questionId |-> questionId,
                        body |-> getLeaderboard(ratings, students, roomId,
                                                questionId)]
            /\ ratings' = MapDeleteAll(ratings,
                              {id \in DOMAIN ratings :
                                  ratings[id].studentId \notin DOMAIN students})
    /\ UNCHANGED <<students, studentCounter, users, rooms, roomCounter,
                   roomAssignments, roomAssignmentCounter, questions,
                   questionCounter, ratingCounter, sessions, inflight>>
    /\ UNCHANGED page

GetLeaderboard(c, roomId, questionId) ==
    /\ IF ~isAuthenticated(reqUser(c))
       THEN resp' = Reply("getLeaderboard", 401)
       ELSE resp' = [op |-> "getLeaderboard", status |-> 200,
                     roomId |-> roomId, questionId |-> questionId,
                     body |-> getLeaderboard(ratings, students, roomId,
                                             questionId)]
    /\ UNCHANGED <<storageVars, sessions, inflight>>
    /\ UNCHANGED page

(***************************************************************************)
(* Setting the server up: the admin logs in and creates students, rooms    *)
(* and questions, and the students log in.                                 *)
(***************************************************************************)
NextSetup ==
    \/ \E u \in {"admin", "nobody"}, p \in {"adminpassword", "guess"} :
           AdminLogin(u, p)
    \/ \E s \in StudentInputs, n \in {"Ann", "ann", "Bob"} :
           StudentLogin(s.studentNumber, s.email, n)
    \/ \E c \in Callers, data \in StudentInputs : CreateStudent(c, data)
    \/ \E c \in Callers, data \in RoomInputs : CreateRoom(c, data)
    \/ \E c \in Callers, data \in QuestionInputs : CreateQuestion(c, data)

SpecSetup == Init /\ [][NextSetup]_vars

(***************************************************************************)
(* The server in use.  It starts set up: MaxStudents students, each logged *)
(* in, MaxRooms rooms with one question each, and the admin logged in.     *)
(* From there requests are served one after the other: anyone submits     *)
(* ratings, and the admin deletes students, rooms and questions and        *)
(* updates questions.                                                      *)
(***************************************************************************)
studentInput(i) ==
    IF i = 1 THEN [studentNumber |-> "S1", name |-> "Ann", email |-> "ann@x"]
    ELSE IF i = 2 THEN [studentNumber |-> "S2", name |-> "Bob", email |-> "bob@x"]
    ELSE [studentNumber |-> "S3", name |-> "Cy", email |-> "cy@x"]

RECURSIVE setUpStudents(_)
setUpStudents(n) ==
    IF n = 0 THEN EmptyMap
    ELSE updateStudent(createStudent(setUpStudents(n - 1), n, studentInput(n)),
                       n, TRUE)

RECURSIVE setUpRooms(_)
setUpRooms(n) ==
    IF n = 0 THEN EmptyMap
    ELSE createRoom(setUpRooms(n - 1), n,
                    [roomName |-> "R", branch |-> "B", section |-> "A"])

RECURSIVE setUpQuestions(_)
setUpQuestions(n) ==
    IF n = 0 THEN EmptyMap
    ELSE createQuestion(setUpQuestions(n - 1), n,
                        [roomId |-> IF n <= MaxRooms THEN n ELSE MaxRooms,
                         questionText |-> "Q"])

\* SpecSetup reaches this storage and these sessions from Init: the admin logs
\* in and creates the students, the rooms and the questions, and each student
\* logs in
SetUpDirectory ==
    /\ students = setUpStudents(MaxStudents)
    /\ studentCounter = MaxStudents + 1
    /\ users = MapSet(EmptyMap, adminUser.id, adminUser)
    /\ rooms = setUpRooms(MaxRooms) /\ roomCounter = MaxRooms + 1
    /\ roomAssignments = EmptyMap /\ roomAssignmentCounter = 1
    /\ questions = setUpQuestions(MaxQuestions)
    /\ questionCounter = MaxQuestions + 1
    /\ sessions = {serializeUser(adminUser)}
                     \cup {[type |-> "student", id |-> i] : i \in 1..MaxStudents}
    /\ resp = Reply("none", 0)
    /\ inflight = << >>
    /\ page = NoPage

SetUp ==
    /\ SetUpDirectory
    /\ ratings = EmptyMap /\ ratingCounter = 1

\* the sessions the admin's browser holds
AdminCallers == {c \in Callers : c.type = "admin"}

Next ==
    \/ \E c \in Callers, body \in RatingBodies : SubmitRating(c, body)
    \/ \E c \in AdminCallers, id \in StudentIdsIn : DeleteStudent(c, id)
    \/ \E c \in AdminCallers, id \in RoomIdsIn : DeleteRoom(c, id)
    \/ \E c \in AdminCallers, id \in QuestionIdsIn : DeleteQuestion(c, id)
    \/ \E c \in AdminCallers, id \in QuestionIdsIn, data \in QuestionInputs :
           UpdateQuestion(c, id, data)

Spec == SetUp /\ [][Next]_vars

(***************************************************************************)
(* The server in use, with the leaderboard read between submissions.       *)
(***************************************************************************)
NextBoard ==
    \/ \E c \in Callers, body \in RatingBodies : SubmitRating(c, body)
    \/ \E c \in AdminCallers, id \in StudentIdsIn : DeleteStudent(c, id)
    \/ \E c \in Callers, roomId \in RoomIdsIn, questionId \in QuestionQueries :
           GetLeaderboard(c, roomId, questionId)

SpecBoard == SetUp /\ [][NextBoard]_vars

(***************************************************************************)
(* The leaderboard of a ledger that holds ranks up to MaxOrderRank.  The    *)
(* server starts set up and with the ledger that up to MaxOrderRatings     *)
(* submissions, served one after the other, have left: each is a logged-in *)
(* student rating a student on the first question of the first room.  The  *)
(* leaderboard is then read.                                               *)
(***************************************************************************)
MaxOrderRatings == 3
MaxOrderRank == 2

OrderRequests ==
    [rater : StudentIdsIn, studentId : StudentIdsIn, rank : 1..MaxOrderRank]

\* new Date() at a submission served right after the set-up, when the ledger
\* has handed out the ids below counter
setUpNow(counter) ==
    (MaxStudents + 1) + (MaxRooms + 1) + 1 + (MaxQuestions + 1) + counter

\* the ledger and its counter after the submissions of reqs were served
RECURSIVE servedLedger(_)
servedLedger(reqs) ==
    IF reqs = << >> THEN [ratings |-> EmptyMap, counter |-> 1]
    ELSE LET before == servedLedger(SubSeq(reqs, 1, Len(reqs) - 1))
             req == reqs[Len(reqs)]
             out == submitRating(before.ratings, before.counter,
                                 setUpNow(before.counter),
                                 setUpStudents(MaxStudents)[req.rater],
                                 [roomId |-> 1, questionId |-> 1,
                                  studentId |-> req.studentId,
                                  raterId |-> req.rater, rank |-> req.rank])
         IN [ratings |-> out.ratings,
             counter |-> IF out.status = 201 THEN before.counter + 1
                         ELSE before.counter]

SetUpRated ==
    /\ SetUpDirectory
    /\ \E n \in 0..MaxOrderRatings :
          \E reqs \in [1..n -> OrderRequests] :
              /\ ratings = servedLedger(reqs).ratings
              /\ ratingCounter = servedLedger(reqs).counter

NextOrder ==
    \E c \in Callers, roomId \in RoomIdsIn, questionId \in QuestionQueries :
        GetLeaderboard(c, roomId, questionId)

SpecOrder == SetUpRated /\ [][NextOrder]_vars

(***************************************************************************)
(* The admin at work on MaxDirRooms rooms.  The server starts with the     *)
(* students set up and logged in, MaxDirRooms rooms and one question in    *)
(* each room.  The first student submits ratings, and the admin assigns    *)
(* students to rooms, removes them from rooms and deletes rooms.           *)
(***************************************************************************)
DirRoomIdsIn == 1..(MaxDirRooms + 1)

RECURSIVE setUpRoomQuestions(_)
setUpRoomQuestions(n) ==
    IF n = 0 THEN EmptyMap
    ELSE createQuestion(setUpRoomQuestions(n - 1), n,
                        [roomId |-> n, questionText |-> "Q"])

SetUpRooms ==
    /\ students = setUpStudents(MaxStudents)
    /\ studentCounter = MaxStudents + 1
    /\ users = MapSet(EmptyMap, adminUser.id, adminUser)
    /\ rooms = setUpRooms(MaxDirRooms) /\ roomCounter = MaxDirRooms + 1
    /\ roomAssignments = EmptyMap /\ roomAssignmentCounter = 1
    /\ questions = setUpRoomQuestions(MaxDirRooms)
    /\ questionCounter = MaxDirRooms + 1
    /\ ratings = EmptyMap /\ ratingCounter = 1
    /\ sessions = {serializeUser(adminUser)}
                     \cup {[type |-> "student", id |-> i] : i \in 1..MaxStudents}
    /\ resp = Reply("none", 0)
    /\ inflight = << >>
    /\ page = NoPage

\* the ratings submitted there: of the first student, on any room and question
DirBodies ==
    [roomId : 1..MaxDirRooms, questionId : 1..MaxDirRooms, studentId : {1},
     raterId : {1}, rank : {1}]

\* the session of the first student
FirstStudentCallers == {c \in Callers : c.type = "student" /\ c.id = 1}

NextRooms ==
    \/ \E c \in FirstStudentCallers, body \in DirBodies : SubmitRating(c, body)
    \/ \E c \in AdminCallers, roomId \in DirRoomIdsIn, studentId \in StudentIdsIn :
           AssignStudentToRoom(c, roomId, studentId)
    \/ \E c \in AdminCallers, roomId \in DirRoomIdsIn, studentId \in StudentIdsIn :
           RemoveStudentFromRoom(c, roomId, studentId)
    \/ \E c \in AdminCallers, id \in DirRoomIdsIn : DeleteRoom(c, id)

SpecRooms == SetUpRooms /\ [][NextRooms]_vars

(***************************************************************************)
(* Every operation of the server.  It starts with the first student        *)
(* created and logged in and the admin logged in; rooms, questions and the *)
(* other students are still to come.  The admin logs out and in again, the *)
(* second student logs in, the admin works on students, rooms, questions   *)
(* and the first student's room, the first student rates, and the          *)
(* leaderboard of the first room is read.                                  *)
(***************************************************************************)
SetUpFirstStudent ==
    /\ students = setUpStudents(1) /\ studentCounter = 2
    /\ users = MapSet(EmptyMap, adminUser.id, adminUser)
    /\ rooms = EmptyMap /\ roomCounter = 1
    /\ roomAssignments = EmptyMap /\ roomAssignmentCounter = 1
    /\ questions = EmptyMap /\ questionCounter = 1
    /\ ratings = EmptyMap /\ ratingCounter = 1
    /\ sessions = {serializeUser(adminUser), [type |-> "student", id |-> 1]}
    /\ resp = Reply("none", 0)
    /\ inflight = << >>
    /\ page = NoPage

\* the rows of an imported file: none, or the first two students in order
ImportRows == {<< >>, <<studentInput(1), studentInput(2)>>}

\* the ratings submitted there: of the first question of the first room
AllBodies ==
    [roomId : {1}, questionId : {1}, studentId : {1}, raterId : {1},
     rank : {1}]

NextAll ==
    \/ AdminLogin("admin", "adminpassword")
    \/ StudentLogin("S2", "bob@x", "Bob")
    \/ \E c \in AdminCallers : Logout(c)
    \/ \E c \in AdminCallers, data \in StudentInputs : CreateStudent(c, data)
    \/ \E c \in AdminCallers, rows \in ImportRows : ImportStudents(c, rows)
    \/ \E c \in AdminCallers, id \in StudentIdsIn : ResetStudent(c, id)
    \/ \E c \in AdminCallers, id \in StudentIdsIn : DeleteStudent(c, id)
    \/ \E c \in AdminCallers, data \in RoomInputs : CreateRoom(c, data)
    \/ \E c \in AdminCallers, id \in RoomIdsIn, data \in RoomInputs :
           UpdateRoom(c, id, data)
    \/ \E c \in AdminCallers, id \in RoomIdsIn : DeleteRoom(c, id)
    \/ \E c \in AdminCallers, roomId \in RoomIdsIn :
           AssignStudentToRoom(c, roomId, 1)
    \/ \E c \in AdminCallers, roomId \in RoomIdsIn :
           RemoveStudentFromRoom(c, roomId, 1)
    \/ \E c \in AdminCallers, data \in QuestionInputs : CreateQuestion(c, data)
    \/ \E c \in AdminCallers, id \in QuestionIdsIn, data \in QuestionInputs :
           UpdateQuestion(c, id, data)
    \/ \E c \in AdminCallers, id \in QuestionIdsIn : DeleteQuestion(c, id)
    \/ \E c \in FirstStudentCallers, body \in AllBodies : SubmitRating(c, body)
    \/ \E c \in Callers : GetLeaderboard(c, 1, NoQuestion)

SpecAll == SetUpFirstStudent /\ [][NextAll]_vars

(***************************************************************************)
(* The admin filling the student table.  The server starts as constructed, *)
(* with the admin logged in.  Students are created one by one and imported *)
(* from files of up to MaxImportRows rows, whose student numbers and       *)
(* emails may repeat, and the admin deletes students.                      *)
(***************************************************************************)
MaxImportRows == 2

StudentRows ==
    [studentNumber : {"S1", "S2"}, name : {"Ann"}, email : {"ann@x", "bob@x"}]

\* what extractStudentsFromExcel can find in a file
ImportFiles == UNION {[1..n -> StudentRows] : n \in 0..MaxImportRows}

SetUpAdmin ==
    /\ students = EmptyMap /\ studentCounter = 1
    /\ users = MapSet(EmptyMap, adminUser.id, adminUser)
    /\ rooms = EmptyMap /\ roomCounter = 1
    /\ roomAssignments = EmptyMap /\ roomAssignmentCounter = 1
    /\ questions = EmptyMap /\ questionCounter = 1
    /\ ratings = EmptyMap /\ ratingCounter = 1
    /\ sessions = {serializeUser(adminUser)}
    /\ resp = Reply("none", 0)
    /\ inflight = << >>
    /\ page = NoPage

NextStudents ==
    \/ \E c \in Callers, data \in StudentRows : CreateStudent(c, data)
    \/ \E c \in Callers, rows \in ImportFiles : ImportStudents(c, rows)
    \/ \E c \in AdminCallers, id \in StudentIdsIn : DeleteStudent(c, id)

SpecStudents == SetUpAdmin /\ [][NextStudents]_vars

(***************************************************************************)
(* The student table filled from the predefined files as well: the admin   *)
(* creates and deletes students, and importPredefinedExcelFiles runs on    *)
(* two files of up to MaxImportRows rows each.                             *)
(***************************************************************************)
NextPredefined ==
    \/ \E c \in AdminCallers, data \in StudentRows : CreateStudent(c, data)
    \/ \E first \in ImportFiles, second \in ImportFiles :
           ImportPredefinedExcelFiles(first, second)
    \/ \E c \in AdminCallers, id \in StudentIdsIn : DeleteStudent(c, id)

SpecPredefined == SetUpAdmin /\ [][NextPredefined]_vars

(***************************************************************************)
(* The admin routes called by anyone.  The server starts set up; a request *)
(* to an admin route carries no session, a student's session, the session  *)
(* of a student deleted since, or the admin's; the first student rates.    *)
(***************************************************************************)
NextGuard ==
    \/ \E c \in Callers, data \in StudentInputs : CreateStudent(c, data)
    \/ \E c \in Callers, rows \in ImportRows : ImportStudents(c, rows)
    \/ \E c \in Callers, id \in StudentIdsIn : ResetStudent(c, id)
    \/ \E c \in Callers, id \in StudentIdsIn : DeleteStudent(c, id)
    \/ \E c \in Callers, data \in RoomInputs : CreateRoom(c, data)
    \/ \E c \in Callers, id \in RoomIdsIn, data \in RoomInputs :
           UpdateRoom(c, id, data)
    \/ \E c \in Callers, id \in RoomIdsIn : DeleteRoom(c, id)
    \/ \E c \in Callers, roomId \in RoomIdsIn :
           AssignStudentToRoom(c, roomId, 1)
    \/ \E c \in Callers, roomId \in RoomIdsIn :
           RemoveStudentFromRoom(c, roomId, 1)
    \/ \E c \in Callers, data \in QuestionInputs : CreateQuestion(c, data)
    \/ \E c \in Callers, id \in QuestionIdsIn, data \in QuestionInputs :
           UpdateQuestion(c, id, data)
    \/ \E c \in Callers, id \in QuestionIdsIn : DeleteQuestion(c, id)
    \/ \E c \in FirstStudentCallers, body \in AllBodies : SubmitRating(c, body)

SpecGuard == SetUp /\ [][NextGuard]_vars

(***************************************************************************)
(* Sessions from the first login on.  The server starts as constructed;    *)
(* the admin and the students log in and out, and whoever holds a session  *)
(* or none creates students and rooms, deletes students and rates.  The    *)
(* first student created gets id 1, the id of the default admin.           *)
(***************************************************************************)
NextSessions ==
    \/ \E u \in {"admin", "nobody"}, p \in {"adminpassword", "guess"} :
           AdminLogin(u, p)
    \/ \E data \in StudentInputs :
           StudentLogin(data.studentNumber, data.email, data.name)
    \/ \E c \in Callers : Logout(c)
    \/ \E c \in Callers, data \in StudentInputs : CreateStudent(c, data)
    \/ \E c \in Callers, id \in StudentIdsIn : DeleteStudent(c, id)
    \/ \E c \in Callers, data \in RoomInputs : CreateRoom(c, data)
    \/ \E c \in Callers, body \in AllBodies : SubmitRating(c, body)

SpecSessions == Init /\ [][NextSessions]_vars

(***************************************************************************)
(* POST /api/ratings with its awaits.  The handler runs to its first await *)
(* (the guards, the parse and the lookup), later resumes to write          *)
(* (updateRating or createRating), and later still resumes to respond.     *)
(* Between two of its steps any other handler may take a step of its own.  *)
(* inflight holds the handlers that are suspended at an await.             *)
(***************************************************************************)
RemoveAt(seq, i) == SubSeq(seq, 1, i - 1) \o SubSeq(seq, i + 1, Len(seq))

\* the bodies of the requests that race: ratings of one question of one room
RacingBodies ==
    [roomId : {1}, questionId : {1}, studentId : StudentIdsIn, raterId : {1},
     rank : Ranks]

\* lines 513-526: up to the await of getRatingByStudentAndQuestion
SubmitBegin(c, body) ==
    /\ LET user == reqUser(c)
           early == submitRating(ratings, ratingCounter, Now, user, body).status
       IN IF early \in {401, 403, 400}
          THEN /\ resp' = Reply("submitRating", early)
               /\ UNCHANGED <<storageVars, sessions, inflight>>
          ELSE /\ Len(inflight) < MaxInFlight
               /\ inflight' = Append(inflight,
                      [pc |-> "found",
                       validatedData |-> stampRater(body, user),
                       existingRating |->
                           getRatingByStudentAndQuestion(ratings, body.studentId,
                                                         body.questionId, user.id),
                       status |-> 0])
               /\ UNCHANGED <<storageVars, sessions, resp>>
    /\ UNCHANGED page

\* lines 528-536: from the lookup's result to the await of the write
SubmitWrite(i) ==
    /\ LET h == inflight[i]
       IN /\ h.pc = "found"
          /\ IF h.existingRating # Undefined
             THEN /\ ratings' = updateRating(ratings, h.existingRating.id,
                                             rankOnly(h.validatedData))
                  /\ UNCHANGED ratingCounter
                  /\ inflight' = [inflight EXCEPT ![i].pc = "written",
                                                  ![i].status = 200]
             ELSE /\ ratingCounter <= MaxRatings
                  /\ ratings' = createRating(ratings, ratingCounter, Now,
                                             h.validatedData)
                  /\ ratingCounter' = ratingCounter + 1
                  /\ inflight' = [inflight EXCEPT ![i].pc = "written",
                                                  ![i].status = 201]
          /\ UNCHANGED <<students, studentCounter, users, rooms, roomCounter,
                         roomAssignments, roomAssignmentCounter, questions,
                         questionCounter, sessions, resp>>
    /\ UNCHANGED page

\* lines 533 and 537: the response
SubmitRespond(i) ==
    /\ inflight[i].pc = "written"
    /\ resp' = Reply("submitRating", inflight[i].status)
    /\ inflight' = RemoveAt(inflight, i)
    /\ UNCHANGED <<storageVars, sessions>>
    /\ UNCHANGED page

NextConc ==
    \/ \E c \in Callers, body \in RacingBodies : SubmitBegin(c, body)
    \/ \E i \in DOMAIN inflight : SubmitWrite(i)
    \/ \E i \in DOMAIN inflight : SubmitRespond(i)

SpecConc == SetUp /\ [][NextConc]_vars

(***************************************************************************)
(* GET /api/rooms/:id/leaderboard among the racing submissions.            *)
(* storage.getLeaderboard has no await inside: the route runs the guard    *)
(* and the whole aggregation in one go, is suspended at its await of the   *)
(* result, and later resumes to respond.                                   *)
(***************************************************************************)
\* lines 551-556: up to the await of getLeaderboard
BoardBegin(c, roomId, questionId) ==
    /\ IF ~isAuthenticated(reqUser(c))
       THEN /\ resp' = Reply("getLeaderboard", 401)
            /\ UNCHANGED <<storageVars, sessions, inflight>>
       ELSE /\ Len(inflight) < MaxInFlight
            /\ inflight' = Append(inflight,
                   [pc |-> "board", roomId |-> roomId, questionId |-> questionId,
                    leaderboard |-> getLeaderboard(ratings, students, roomId,
                                                   questionId)])
            /\ UNCHANGED <<storageVars, sessions, resp>>
    /\ UNCHANGED page

\* line 557: the response
BoardRespond(i) ==
    /\ inflight[i].pc = "board"
    /\ resp' = [op |-> "getLeaderboard", status |-> 200,
                roomId |-> inflight[i].roomId,
                questionId |-> inflight[i].questionId,
                body |-> inflight[i].leaderboard]
    /\ inflight' = RemoveAt(inflight, i)
    /\ UNCHANGED <<storageVars, sessions>>
    /\ UNCHANGED page

\* the bodies of the submissions that race there: one triple, any rank
SnapBodies ==
    [roomId : {1}, questionId : {1}, studentId : {1}, raterId : {1},
     rank : Ranks]

NextSnap ==
    \/ \E c \in Callers, body \in SnapBodies : SubmitBegin(c, body)
    \/ \E i \in DOMAIN inflight : SubmitWrite(i)
    \/ \E i \in DOMAIN inflight : SubmitRespond(i)
    \/ \E c \in Callers : BoardBegin(c, 1, NoQuestion)
    \/ \E i \in DOMAIN inflight : BoardRespond(i)

SpecSnap == SetUp /\ [][NextSnap]_vars

(***************************************************************************)
(* POST /api/student/login with its awaits.  The student strategy awaits   *)
(* getStudentByNumber, resumes to run its checks on the student it was     *)
(* given and awaits updateStudent, and resumes again to hand the student   *)
(* to req.login and respond.  The admin resets registrations meanwhile.    *)
(***************************************************************************)
RECURSIVE setUpEnrolled(_)
setUpEnrolled(n) ==
    IF n = 0 THEN EmptyMap
    ELSE createStudent(setUpEnrolled(n - 1), n, studentInput(n))

\* the students are created and none has logged in; the admin is logged in
SetUpEnrolled ==
    /\ students = setUpEnrolled(MaxStudents)
    /\ studentCounter = MaxStudents + 1
    /\ users = MapSet(EmptyMap, adminUser.id, adminUser)
    /\ rooms = EmptyMap /\ roomCounter = 1
    /\ roomAssignments = EmptyMap /\ roomAssignmentCounter = 1
    /\ questions = EmptyMap /\ questionCounter = 1
    /\ ratings = EmptyMap /\ ratingCounter = 1
    /\ sessions = {serializeUser(adminUser)}
    /\ resp = Reply("none", 0)
    /\ inflight = << >>
    /\ page = NoPage

\* the login forms sent: of the first student, of an unknown number, with
\* the right or a wrong email and name
LoginForms ==
    [studentNumber : {"S1", "S9"}, email : {"ann@x", "bob@x"},
     name : {"ann", "Bob"}]

\* line 84: up to the await of getStudentByNumber
LoginLookup(form) ==
    /\ Len(inflight) < MaxInFlight
    /\ inflight' = Append(inflight,
           [pc |-> "lookedUp",
            student |-> getStudentByNumber(students, form.studentNumber),
            email |-> form.email, name |-> form.name])
    /\ UNCHANGED <<storageVars, sessions, resp>>
    /\ UNCHANGED page

\* lines 86-105: the checks on the student found, up to the await of
\* updateStudent
LoginCheck(i) ==
    /\ LET h == inflight[i]
       IN /\ h.pc = "lookedUp"
          /\ IF \/ h.student = Undefined
                \/ h.student.email # h.email
                \/ h.student.isRegistered
                \/ toLowerCase(h.name) # toLowerCase(h.student.name)
             THEN /\ resp' = Reply("studentLogin", 401)
                  /\ inflight' = RemoveAt(inflight, i)
                  /\ UNCHANGED students
             ELSE /\ students' = updateStudent(students, h.student.id, TRUE)
                  /\ inflight' = [inflight EXCEPT ![i].pc = "registered"]
                  /\ UNCHANGED resp
          /\ UNCHANGED <<studentCounter, users, rooms, roomCounter,
                         roomAssignments, roomAssignmentCounter, questions,
                         questionCounter, ratings, ratingCounter, sessions>>
    /\ UNCHANGED page

\* lines 107-108 and the route: done(null, student), req.login, the response
LoginDone(i) ==
    /\ inflight[i].pc = "registered"
    /\ sessions' = sessions \cup {serializeUser(inflight[i].student)}
    /\ resp' = [op |-> "studentLogin", status |-> 200,
                id |-> inflight[i].student.id]
    /\ inflight' = RemoveAt(inflight, i)
    /\ UNCHANGED storageVars
    /\ UNCHANGED page

NextLogin ==
    \/ \E form \in LoginForms : LoginLookup(form)
    \/ \E i \in DOMAIN inflight : LoginCheck(i)
    \/ \E i \in DOMAIN inflight : LoginDone(i)
    \/ \E c \in Callers, id \in StudentIdsIn : ResetStudent(c, id)

SpecLogin == SetUpEnrolled /\ [][NextLogin]_vars

(***************************************************************************)
(* POST /api/rooms/:roomId/students/:studentId with its awaits.  The       *)
(* handler reads the room and is suspended, resumes to read the student    *)
(* and is suspended, resumes to run its checks on what it read and to call *)
(* assignStudentToRoom, and resumes once more to respond.  The admin       *)
(* deletes rooms and students meanwhile.                                   *)
(***************************************************************************)
\* lines 352-358: the guard, up to the await of getRoom
AssignBegin(c, roomId, studentId) ==
    /\ IF ~isAdmin(reqUser(c))
       THEN /\ resp' = Reply("assignStudentToRoom", 403)
            /\ UNCHANGED <<storageVars, sessions, inflight>>
       ELSE /\ Len(inflight) < MaxInFlight
            /\ inflight' = Append(inflight,
                   [pc |-> "room", roomId |-> roomId, studentId |-> studentId,
                    room |-> getRoom(rooms, roomId), student |-> Undefined,
                    assignment |-> Undefined])
            /\ UNCHANGED <<storageVars, sessions, resp>>
    /\ UNCHANGED page

\* line 359: up to the await of getStudent
AssignGetStudent(i) ==
    /\ inflight[i].pc = "room"
    /\ inflight' = [inflight EXCEPT
                       ![i].pc = "student",
                       ![i].student = getStudent(students, inflight[i].studentId)]
    /\ UNCHANGED <<storageVars, sessions, resp>>
    /\ UNCHANGED page

\* lines 361-372: the checks, up to the await of assignStudentToRoom
AssignWrite(i) ==
    /\ LET h == inflight[i]
       IN /\ h.pc = "student"
          /\ IF h.room = Undefined \/ h.student = Undefined
             THEN /\ resp' = Reply("assignStudentToRoom", 404)
                  /\ inflight' = RemoveAt(inflight, i)
                  /\ UNCHANGED <<roomAssignments, roomAssignmentCounter>>
             ELSE /\ roomAssignmentCounter <= MaxAssignments
                  /\ roomAssignments' =
                         assignStudentToRoom(roomAssignments,
                                             roomAssignmentCounter, Now,
                                             [roomId |-> h.roomId,
                                              studentId |-> h.studentId])
                  /\ roomAssignmentCounter' = roomAssignmentCounter + 1
                  /\ inflight' = [inflight EXCEPT
                                     ![i].pc = "assigned",
                                     ![i].assignment =
                                         roomAssignments'[roomAssignmentCounter]]
                  /\ UNCHANGED resp
          /\ UNCHANGED <<students, studentCounter, users, rooms, roomCounter,
                         questions, questionCounter, ratings, ratingCounter,
                         sessions>>
    /\ UNCHANGED page

\* line 374: the response
AssignRespond(i) ==
    /\ inflight[i].pc = "assigned"
    /\ resp' = [op |-> "assignStudentToRoom", status |-> 201,
                body |-> inflight[i].assignment]
    /\ inflight' = RemoveAt(inflight, i)
    /\ UNCHANGED <<storageVars, sessions>>
    /\ UNCHANGED page

NextAssign ==
    \/ \E c \in Callers, roomId \in RoomIdsIn, studentId \in StudentIdsIn :
           AssignBegin(c, roomId, studentId)
    \/ \E i \in DOMAIN inflight : AssignGetStudent(i)
    \/ \E i \in DOMAIN inflight : AssignWrite(i)
    \/ \E i \in DOMAIN inflight : AssignRespond(i)
    \/ \E c \in AdminCallers, id \in RoomIdsIn : DeleteRoom(c, id)
    \/ \E c \in AdminCallers, id \in StudentIdsIn : DeleteStudent(c, id)

SpecAssign == SetUp /\ [][NextAssign]_vars

(***************************************************************************)
(* The student rating page (StudentRating) in the browser of the first     *)
(* student, on room 1.  Its state is what useState holds; its steps are    *)
(* the event handlers and the callbacks of submitRatingMutation, each run  *)
(* with the render that follows it (the effect on currentQuestionIndex     *)
(* included).  submitRatings calls mutate once per selected student: each  *)
(* call builds a mutation of its own, whose request is answered in its own *)
(* time.  A mutation runs the onSuccess of the render it was built in; the *)
(* last one built, which the hook observes (isPending), runs the onSuccess *)
(* of the latest render while it is pending.                               *)
(***************************************************************************)
MaxPageQuestions == 2
MaxPending == 2
MaxPageRatings == 3

RECURSIVE setUpPageQuestions(_)
setUpPageQuestions(n) ==
    IF n = 0 THEN EmptyMap
    ELSE createQuestion(setUpPageQuestions(n - 1), n,
                        [roomId |-> 1, questionText |-> "Q"])

RECURSIVE setUpAssignments(_)
setUpAssignments(n) ==
    IF n = 0 THEN EmptyMap
    ELSE assignStudentToRoom(setUpAssignments(n - 1), n, n,
                             [roomId |-> 1, studentId |-> n])

\* useParams, useAuth and the three queries of the page, once loaded
pageRoomId == 1
pageUser == setUpStudents(MaxStudents)[1]
pageSession == serializeUser(pageUser)
pageQuestions == MapValues(setUpPageQuestions(MaxPageQuestions))
pageStudents == MapValues(setUpStudents(MaxStudents))

\* questions[index] of a JavaScript array
questionAt(index) ==
    IF index + 1 \in DOMAIN pageQuestions THEN pageQuestions[index + 1]
    ELSE Undefined

\* the useState initial values
mountedPage ==
    [mounted |-> TRUE, currentQuestionIndex |-> 0, selectedStudents |-> << >>,
     submittedQuestions |-> {}, mutations |-> << >>]

\* the server set up with the room's questions and students, the student
\* logged in and the page loaded
SetUpPage ==
    /\ students = setUpStudents(MaxStudents)
    /\ studentCounter = MaxStudents + 1
    /\ users = MapSet(EmptyMap, adminUser.id, adminUser)
    /\ rooms = setUpRooms(1) /\ roomCounter = 2
    /\ roomAssignments = setUpAssignments(MaxStudents)
    /\ roomAssignmentCounter = MaxStudents + 1
    /\ questions = setUpPageQuestions(MaxPageQuestions)
    /\ questionCounter = MaxPageQuestions + 1
    /\ ratings = EmptyMap /\ ratingCounter = 1
    /\ sessions = {serializeUser(adminUser), pageSession}
    /\ resp = Reply("none", 0)
    /\ inflight = << >>
    /\ page = mountedPage

\* the safety check: the question and the rating sections are rendered
sectionsShown(pg) ==
    Len(pageQuestions) # 0 /\ questionAt(pg.currentQuestionIndex) # Undefined

isCurrentQuestionSubmitted(pg) ==
    /\ questionAt(pg.currentQuestionIndex) # Undefined
    /\ questionAt(pg.currentQuestionIndex).id \in pg.submittedQuestions

\* submitRatingMutation.isPending: the mutation the hook observes is pending
isPending(pg) == \E i \in DOMAIN pg.mutations : pg.mutations[i].current

\* the Submit Ratings button is rendered and not disabled
submitEnabled(pg) ==
    /\ sectionsShown(pg)
    /\ ~(\/ Len(pg.selectedStudents) = 0
         \/ isCurrentQuestionSubmitted(pg)
         \/ isPending(pg))

\* setCurrentQuestionIndex and the render after it: the effect on
\* currentQuestionIndex empties the selection
setCurrentQuestionIndex(pg, index) ==
    [pg EXCEPT !.currentQuestionIndex = index,
               !.selectedStudents =
                   IF index # pg.currentQuestionIndex THEN << >> ELSE @]

\* handleSelectStudent
HandleSelectStudent(studentId) ==
    /\ page.mounted /\ sectionsShown(page)
    /\ page' = [page EXCEPT
                   !.selectedStudents =
                       IF \E k \in DOMAIN @ : @[k] = studentId THEN @
                       ELSE Append(@, studentId)]
    /\ UNCHANGED <<storageVars, sessions, resp, inflight>>

\* goToPreviousQuestion, behind its button
GoToPreviousQuestion ==
    /\ page.mounted /\ sectionsShown(page)
    /\ page.currentQuestionIndex # 0
    /\ page' = IF page.currentQuestionIndex > 0
               THEN setCurrentQuestionIndex(page, page.currentQuestionIndex - 1)
               ELSE page
    /\ UNCHANGED <<storageVars, sessions, resp, inflight>>

\* goToNextQuestion, behind its button
GoToNextQuestion ==
    /\ page.mounted /\ sectionsShown(page)
    /\ page.currentQuestionIndex # Len(pageQuestions) - 1
    /\ page' = IF page.currentQuestionIndex < Len(pageQuestions) - 1
               THEN setCurrentQuestionIndex(page, page.currentQuestionIndex + 1)
               ELSE page
    /\ UNCHANGED <<storageVars, sessions, resp, inflight>>

\* a rank that starts at 0
rankFromZero(index) == index

\* const rank = index + 1
rankOfIndex(index) == index + 1

\* the mutations that the forEach of submitRatings builds
builtMutations(pg) ==
    [k \in 1..Len(pg.selectedStudents) |->
        [variables |-> [roomId |-> pageRoomId,
                        questionId |-> questionAt(pg.currentQuestionIndex).id,
                        studentId |-> pg.selectedStudents[k],
                        raterId |-> pageUser.id,
                        rank |-> rankOfIndex(k - 1)],
         index |-> pg.currentQuestionIndex,
         current |-> k = Len(pg.selectedStudents)]]

\* submitRatings, behind its button
SubmitRatings ==
    /\ page.mounted /\ submitEnabled(page)
    /\ Len(page.mutations) + Len(page.selectedStudents) <= MaxPending
    /\ page' = [page EXCEPT
                   !.mutations =
                       [i \in DOMAIN @ |-> [@[i] EXCEPT !.current = FALSE]]
                           \o builtMutations(page)]
    /\ UNCHANGED <<storageVars, sessions, resp, inflight>>

\* onSuccess as the render with this currentQuestionIndex defined it
onSuccess(pg, index) ==
    LET currentQuestion == questionAt(index)
        marked == [pg EXCEPT
                      !.submittedQuestions =
                          IF currentQuestion # Undefined /\ currentQuestion.id # 0
                          THEN @ \cup {currentQuestion.id} ELSE @,
                      !.selectedStudents = << >>]
    IN IF index < Len(pageQuestions) - 1
       THEN setCurrentQuestionIndex(marked, marked.currentQuestionIndex + 1)
       ELSE marked

\* the request of a mutation is served by POST /api/ratings and the
\* mutation ends with onSuccess or onError
MutationSettle(i) ==
    /\ page.mounted /\ i \in DOMAIN page.mutations
    /\ LET m == page.mutations[i]
           out == submitRating(ratings, ratingCounter, Now,
                               reqUser(pageSession), m.variables)
           rest == [page EXCEPT !.mutations = RemoveAt(@, i)]
       IN /\ out.status = 201 => ratingCounter <= MaxPageRatings
          /\ ratings' = out.ratings
          /\ ratingCounter' = IF out.status = 201 THEN ratingCounter + 1
                              ELSE ratingCounter
          /\ resp' = Reply("submitRating", out.status)
          /\ page' = IF out.status \in {200, 201}
                     THEN onSuccess(rest, IF m.current
                                          THEN page.currentQuestionIndex
                                          ELSE m.index)
                     ELSE rest
    /\ UNCHANGED <<students, studentCounter, users, rooms, roomCounter,
                   roomAssignments, roomAssignmentCounter, questions,
                   questionCounter, sessions, inflight>>

NextPage ==
    \/ \E studentId \in 1..MaxStudents : HandleSelectStudent(studentId)
    \/ GoToPreviousQuestion
    \/ GoToNextQuestion
    \/ SubmitRatings
    \/ \E i \in 1..MaxPending : MutationSettle(i)
    \/ \E c \in AdminCallers : DeleteStudent(c, pageUser.id)

SpecPage == SetUpPage /\ [][NextPage]_vars

(***************************************************************************)
(* What the claims speak of.                                               *)
(***************************************************************************)
Triple(r) == <<r.questionId, r.studentId, r.raterId>>

\* the ids of the ledger entries of a triple
EntriesOf(rs, questionId, studentId, raterId) ==
    {id \in DOMAIN rs : Triple(rs[id]) = <<questionId, studentId, raterId>>}

\* a request from a logged-in student that still exists
IsStudentCaller(c) == c.type = "student" /\ c.id \in DOMAIN students

\* a request from the logged-in admin
IsAdminCaller(c) == c.type = "admin" /\ c.id \in DOMAIN users

\* a body with every field
WellFormed(body) == "rank" \in DOMAIN body

\* what POST /api/ratings from caller c with that body answers and leaves
Outcome(c, body) ==
    submitRating(ratings, ratingCounter, Now, reqUser(c), body)

LastReply(op, status) == resp.op = op /\ resp.status = status

(***************************************************************************)
(* C1: whatever requests were served one after the other (submissions by   *)
(* any caller with any body, deletes of students, rooms and questions,     *)
(* question updates), the ledger holds at most one rating for each         *)
(* (questionId, studentId, raterId).                                       *)
(***************************************************************************)
C1_OneRatingPerTriple ==
    \A a \in DOMAIN ratings, b \in DOMAIN ratings :
        Triple(ratings[a]) = Triple(ratings[b]) => a = b

\* a resubmission was just served while two raters have rated the same
\* student on the same question
C1_Witness ==
    /\ LastReply("submitRating", 200)
    /\ \E a \in DOMAIN ratings, b \in DOMAIN ratings :
          /\ ratings[a].questionId = ratings[b].questionId
          /\ ratings[a].studentId = ratings[b].studentId
          /\ ratings[a].raterId # ratings[b].raterId

(***************************************************************************)
(* C2: when several submissions of one student for one (questionId,        *)
(* studentId) are in flight and their handlers interleave at the awaits,   *)
(* then once all have responded the ledger holds one entry for the triple, *)
(* never two.                                                              *)
(***************************************************************************)
C2_RacingSubmissionsLeaveOneEntry ==
    inflight = << >> =>
        \A id \in DOMAIN ratings :
            Cardinality(EntriesOf(ratings, ratings[id].questionId,
                                  ratings[id].studentId,
                                  ratings[id].raterId)) = 1

(***************************************************************************)
(* C3: a submission a student makes for a triple that has an entry changes *)
(* that entry's rank to the submitted one and nothing else: not its id,    *)
(* createdAt, roomId, questionId, studentId or raterId, not the number of  *)
(* entries, not any other entry.  A submission for a triple with no entry  *)
(* adds one entry under an id no entry has or had, and changes no other.   *)
(***************************************************************************)
C3_UpdateInPlaceOrInsertOne ==
    /\ \A id \in DOMAIN ratings : id < ratingCounter
    /\ \A c \in Callers, body \in RatingBodies :
          (IsStudentCaller(c) /\ WellFormed(body)) =>
            LET after == Outcome(c, body).ratings
                had == EntriesOf(ratings, body.questionId, body.studentId, c.id)
            IN IF had # {}
               THEN /\ DOMAIN after = DOMAIN ratings
                    /\ \A id \in had :
                          after[id] = [ratings[id] EXCEPT !.rank = body.rank]
                    /\ \A id \in (DOMAIN ratings) \ had :
                          after[id] = ratings[id]
               ELSE /\ DOMAIN after = (DOMAIN ratings) \cup {ratingCounter}
                    /\ Triple(after[ratingCounter])
                          = <<body.questionId, body.studentId, c.id>>
                    /\ after[ratingCounter].id = ratingCounter
                    /\ after[ratingCounter].rank = body.rank
                    /\ after[ratingCounter].roomId = body.roomId
                    /\ \A id \in DOMAIN ratings : after[id] = ratings[id]

\* a resubmission was just served, and the ledger holds an entry of room 1
\* that a body naming room 2 could overwrite, beside another entry
C3_Witness ==
    /\ LastReply("submitRating", 200)
    /\ Cardinality(DOMAIN ratings) = 2
    /\ \E id \in DOMAIN ratings : ratings[id].roomId = 1 /\ ratings[id].rank = 0

(***************************************************************************)
(* C4: the raterId of a rating is the id of the logged-in student whose    *)
(* request created it, whatever raterId the body carried: two submissions  *)
(* that differ in the body's raterId alone leave the same ledger.          *)
(***************************************************************************)
ForgedRaterIds == 0..(MaxStudents + 1)

C4_RaterIsTheSubmitter ==
    \A c \in Callers, body \in RatingBodies :
        LET after == Outcome(c, body).ratings
        IN /\ \A id \in (DOMAIN after) \ (DOMAIN ratings) :
                IsStudentCaller(c) /\ after[id].raterId = c.id
           /\ \A forged \in ForgedRaterIds :
                submitRating(ratings, ratingCounter, Now, reqUser(c),
                             [body EXCEPT !.raterId = forged]).ratings = after

\* student 2 has just had a rating created, from a body that carried raterId 1
C4_Witness ==
    /\ LastReply("submitRating", 201)
    /\ \E id \in DOMAIN ratings :
          ratings[id].raterId = 2 /\ id = ratingCounter - 1

(***************************************************************************)
(* C5: a submission from the logged-in admin is answered 403 and one from  *)
(* a caller with no session, or with the session of a student that is      *)
(* gone, is answered 401; neither changes the ledger.                      *)
(***************************************************************************)
C5_NonStudentsAreRejected ==
    \A c \in Callers, body \in RatingBodies :
        /\ IsAdminCaller(c) =>
              Outcome(c, body) = [status |-> 403, ratings |-> ratings]
        /\ (~IsAdminCaller(c) /\ ~IsStudentCaller(c)) =>
              Outcome(c, body) = [status |-> 401, ratings |-> ratings]

\* the admin's submission was just refused while the ledger holds a rating
C5_Witness ==
    /\ LastReply("submitRating", 403)
    /\ ratings # EmptyMap

(***************************************************************************)
(* C6: a submission whose roomId, questionId or studentId names no room,   *)
(* question or student is answered NotFound (404) and adds or changes no   *)
(* ledger entry.                                                           *)
(***************************************************************************)
C6_MissingReferenceIsNotFound ==
    \* no submission that names a missing room, question or student is
    \* accepted: the entry a submission has just created names live ones
    /\ LastReply("submitRating", 201) =>
          LET created == ratings[ratingCounter - 1]
          IN /\ created.roomId \in DOMAIN rooms
             /\ created.questionId \in DOMAIN questions
             /\ created.studentId \in DOMAIN students
    \* and whatever is submitted next, such a submission is answered 404 and
    \* leaves the ledger as it is
    /\ \A c \in Callers, body \in RatingBodies :
          ( /\ resp.op = "submitRating"
            /\ IsStudentCaller(c) /\ WellFormed(body)
            /\ \/ body.roomId \notin DOMAIN rooms
               \/ body.questionId \notin DOMAIN questions
               \/ body.studentId \notin DOMAIN students )
          => Outcome(c, body) = [status |-> 404, ratings |-> ratings]

(***************************************************************************)
(* C7: every rating in the ledger has a rank of at least 1.                *)
(***************************************************************************)
C7_StoredRanksArePositive ==
    \A id \in DOMAIN ratings : ratings[id].rank >= 1

(***************************************************************************)
(* The leaderboard a request was answered with.                            *)
(***************************************************************************)
BoardServed == resp.op = "getLeaderboard" /\ resp.status = 200

\* the ids of the ledger entries a call selects
Selected(roomId, questionId) ==
    LET seq == filteredRatings(ratings, roomId, questionId)
    IN {seq[i].id : i \in 1..Len(seq)}

RECURSIVE SumOfRanks(_)
SumOfRanks(ids) ==
    IF ids = {} THEN 0
    ELSE LET id == CHOOSE x \in ids : TRUE
         IN ratings[id].rank + SumOfRanks(ids \ {id})

InScope(r, roomId, questionId) ==
    r.roomId = roomId /\ (questionId.given => r.questionId = questionId.id)

C9_ScopeIsRoomAndQuestion ==
    BoardServed =>
        LET scoped == MapDeleteAll(ratings,
                         {id \in DOMAIN ratings :
                             ~InScope(ratings[id], resp.roomId, resp.questionId)})
        IN resp.body = getLeaderboard(scoped, students, resp.roomId, NoQuestion)

(***************************************************************************)
(* C10: a leaderboard is sorted by averageRating, descending: of two       *)
(* entries the earlier has an average at least that of the later.          *)
(***************************************************************************)
C10_SortedByAverageDescending ==
    BoardServed =>
        \A i \in DOMAIN resp.body, j \in DOMAIN resp.body :
            i < j => Minus(resp.body[i].averageRating,
                           resp.body[j].averageRating) >= 0

\* a leaderboard of two students with different averages, whose first is the
\* student that was rated last
C10_Witness ==
    /\ BoardServed
    /\ Len(resp.body) = 2
    /\ Minus(resp.body[1].averageRating, resp.body[2].averageRating) > 0
    /\ LET seq == filteredRatings(ratings, resp.roomId, resp.questionId)
       IN seq[1].studentId = resp.body[2].student.id

(***************************************************************************)
(* C11 as the code has it: of two students in one leaderboard, A with      *)
(* average 1.5 and B with average 2.0, B is listed before A, and when they *)
(* are the only two B is at position 1 and A at position 2.                *)
(***************************************************************************)
C11_HigherAverageFirst ==
    BoardServed =>
        \A a \in DOMAIN resp.body, b \in DOMAIN resp.body :
            (/\ resp.body[a].averageRating = Divide(3, 2)
             /\ resp.body[b].averageRating = Divide(2, 1))
            => /\ b < a
               /\ Len(resp.body) = 2 =>
                      resp.body[b].rank = 1 /\ resp.body[a].rank = 2

\* a leaderboard of a student ranked 1 and 2 and a student ranked 2
C11_Witness ==
    /\ BoardServed
    /\ Len(resp.body) = 2
    /\ resp.body[1].averageRating = Divide(2, 1)
    /\ resp.body[1].rank = 1
    /\ resp.body[2].averageRating = Divide(3, 2)
    /\ resp.body[2].totalRating = 3
    /\ resp.body[2].rank = 2

(***************************************************************************)
(* C11 as stated: of two students in one leaderboard, A with average 1.5   *)
(* and B with average 2.0, A is listed before B, A at position 1 and B at  *)
(* position 2.                                                             *)
(***************************************************************************)
C11_LowerAverageFirst ==
    BoardServed =>
        \A a \in DOMAIN resp.body, b \in DOMAIN resp.body :
            (/\ resp.body[a].averageRating = Divide(3, 2)
             /\ resp.body[b].averageRating = Divide(2, 1))
            => /\ a < b
               /\ resp.body[a].rank = 1 /\ resp.body[b].rank = 2

(***************************************************************************)
(* C12: the positions of a leaderboard are dense and 1-based: the entry at *)
(* place i of the answer carries position i, also after students that      *)
(* received ratings were deleted.                                          *)
(***************************************************************************)
C12_PositionsAreDense ==
    BoardServed => \A i \in DOMAIN resp.body : resp.body[i].rank = i

(***************************************************************************)
(* C13: a student is in a leaderboard only if a ledger entry of the        *)
(* leaderboard's room and, when one is given, of its questionId has that   *)
(* student as the rated student; with no such entry at all the leaderboard *)
(* is empty.                                                               *)
(***************************************************************************)
C13_OnlyRatedStudentsAppear ==
    BoardServed =>
        \A i \in DOMAIN resp.body :
            \E id \in DOMAIN ratings :
                /\ InScope(ratings[id], resp.roomId, resp.questionId)
                /\ ratings[id].studentId = resp.body[i].student.id

(***************************************************************************)
(* C16: a leaderboard request changes no rating, student, room, question   *)
(* or assignment, nor any counter, and a request that follows another with *)
(* the same roomId and questionId gets the same answer.                    *)
(***************************************************************************)
C16_ReadOnlyAndRepeatable ==
    [][resp'.op = "getLeaderboard" =>
          /\ UNCHANGED storageVars
          /\ (/\ BoardServed
              /\ resp'.status = 200
              /\ resp'.roomId = resp.roomId
              /\ resp'.questionId = resp.questionId)
             => resp'.body = resp.body]_vars

\* a leaderboard with an entry was served while a rated student is gone
C16_Witness ==
    /\ BoardServed
    /\ Len(resp.body) >= 1
    /\ \E id \in DOMAIN ratings : ratings[id].studentId \notin DOMAIN students

(***************************************************************************)
(* C17: a leaderboard request for a roomId that is no room's id is not     *)
(* answered with a list: a list is served only for a room that exists.     *)
(***************************************************************************)
C17_MissingRoomIsNotFound ==
    BoardServed => getRoom(rooms, resp.roomId) # Undefined

(***************************************************************************)
(* C14: when DELETE /api/questions/q has deleted question q, the ledger    *)
(* holds no rating with questionId q, every rating of another questionId   *)
(* is as it was, no rating was added, and no leaderboard of any room, with *)
(* or without a question filter, selects a rating of q.                    *)
(***************************************************************************)
C14_DeleteQuestionCascades ==
    [][(resp'.op = "deleteQuestion" /\ resp'.status = 204) =>
          \E q \in (DOMAIN questions) \ (DOMAIN questions') :
              /\ \A id \in DOMAIN ratings' : ratings'[id].questionId # q
              /\ \A id \in DOMAIN ratings :
                     ratings[id].questionId # q =>
                         id \in DOMAIN ratings' /\ ratings'[id] = ratings[id]
              /\ DOMAIN ratings' \subseteq DOMAIN ratings
              /\ \A roomId \in RoomIdsIn, questionId \in QuestionQueries :
                     LET seq == filteredRatings(ratings', roomId, questionId)
                     IN \A i \in DOMAIN seq : seq[i].questionId # q]_vars

\* question 1 was deleted, its rating went and a rating of another
\* questionId stayed
C14_Witness ==
    /\ LastReply("deleteQuestion", 204)
    /\ 1 \notin DOMAIN questions
    /\ ratingCounter = 3
    /\ Cardinality(DOMAIN ratings) = 1
    /\ \A id \in DOMAIN ratings : ratings[id].questionId # 1

(***************************************************************************)
(* C15: when DELETE /api/rooms/r has deleted room r, no question has       *)
(* roomId r, no rating has the questionId of a question that room r had,   *)
(* and no assignment has roomId r; the questions of other rooms, the       *)
(* ratings of other questions and the assignments to other rooms are as    *)
(* they were, and nothing was added.                                       *)
(***************************************************************************)
C15_DeleteRoomCascades ==
    [][(resp'.op = "deleteRoom" /\ resp'.status = 204) =>
          \E r \in (DOMAIN rooms) \ (DOMAIN rooms') :
              LET gone == {q \in DOMAIN questions : questions[q].roomId = r}
              IN /\ \A q \in DOMAIN questions' : questions'[q].roomId # r
                 /\ \A id \in DOMAIN ratings' :
                        ratings'[id].questionId \notin gone
                 /\ \A a \in DOMAIN roomAssignments' :
                        roomAssignments'[a].roomId # r
                 /\ \A q \in (DOMAIN questions) \ gone :
                        q \in DOMAIN questions' /\ questions'[q] = questions[q]
                 /\ \A id \in DOMAIN ratings :
                        ratings[id].questionId \notin gone =>
                            /\ id \in DOMAIN ratings'
                            /\ ratings'[id] = ratings[id]
                 /\ \A a \in DOMAIN roomAssignments :
                        roomAssignments[a].roomId # r =>
                            /\ a \in DOMAIN roomAssignments'
                            /\ roomAssignments'[a] = roomAssignments[a]
                 /\ DOMAIN questions' \subseteq DOMAIN questions
                 /\ DOMAIN ratings' \subseteq DOMAIN ratings
                 /\ DOMAIN roomAssignments' \subseteq DOMAIN roomAssignments
                 /\ DOMAIN rooms' = (DOMAIN rooms) \ {r}]_vars

\* room 1 was deleted when two ratings and two assignments had been made:
\* its question, that question's rating and its assignment went, and room 2
\* kept its question, a rating and an assignment
C15_Witness ==
    /\ LastReply("deleteRoom", 204)
    /\ DOMAIN rooms = {2}
    /\ DOMAIN questions = {2}
    /\ ratingCounter = 3
    /\ Cardinality(DOMAIN ratings) = 1
    /\ \A id \in DOMAIN ratings : ratings[id].questionId = 2
    /\ roomAssignmentCounter = 3
    /\ Cardinality(DOMAIN roomAssignments) = 1
    /\ \A a \in DOMAIN roomAssignments : roomAssignments[a].roomId = 2

(***************************************************************************)
(* C19: every student id is in at most one assignment, and when            *)
(* POST /api/rooms/r/students/s has assigned s to r, the new assignment is *)
(* the only one of s, the assignments of the other students are as they    *)
(* were, and nothing else was added.                                       *)
(***************************************************************************)
C19_OneRoomPerStudent ==
    [][/\ \A a \in DOMAIN roomAssignments', b \in DOMAIN roomAssignments' :
              roomAssignments'[a].studentId = roomAssignments'[b].studentId
                  => a = b
       /\ (resp'.op = "assignStudentToRoom" /\ resp'.status = 201) =>
              LET new == resp'.body
              IN /\ new.id \notin DOMAIN roomAssignments
                 /\ {a \in DOMAIN roomAssignments' :
                        roomAssignments'[a].studentId = new.studentId}
                       = {new.id}
                 /\ roomAssignments'[new.id] = new
                 /\ \A a \in DOMAIN roomAssignments :
                        roomAssignments[a].studentId # new.studentId =>
                            /\ a \in DOMAIN roomAssignments'
                            /\ roomAssignments'[a] = roomAssignments[a]
                 /\ DOMAIN roomAssignments'
                       \subseteq (DOMAIN roomAssignments) \cup {new.id}]_vars

\* a student that had a room was assigned to room 2: the second assignment
\* made is the only one there is
C19_Witness ==
    /\ LastReply("assignStudentToRoom", 201)
    /\ resp.body.roomId = 2
    /\ resp.body.id = 2
    /\ DOMAIN roomAssignments = {2}
    /\ roomAssignments[2] = resp.body

(***************************************************************************)
(* C20: the ledger changes only in a step of POST /api/ratings, of         *)
(* DELETE /api/questions/:id or of DELETE /api/rooms/:id: every other      *)
(* operation (logins and logout, creating, importing, resetting and        *)
(* deleting students, creating and updating rooms, assigning and removing  *)
(* students, creating and updating questions, the leaderboard) leaves      *)
(* every ledger entry as it was, and the ledger's counter too.             *)
(***************************************************************************)
C20_OnlySubmitAndCascadesWrite ==
    [][(ratings' # ratings \/ ratingCounter' # ratingCounter) =>
          resp'.op \in {"submitRating", "deleteQuestion", "deleteRoom"}]_vars

\* a student with a rating in the ledger was deleted and the rating is there
C20_Witness ==
    /\ LastReply("deleteStudent", 204)
    /\ \E id \in DOMAIN ratings : ratings[id].studentId \notin DOMAIN students

(***************************************************************************)
(* C18: a leaderboard request served among racing submissions aggregates   *)
(* the ledger of one instant of the call, the one at which the route calls *)
(* getLeaderboard, and in what it aggregates no triple is counted twice,   *)
(* so it never adds an earlier and a later rank of one triple.             *)
(***************************************************************************)
C18_BoardReadsOneLedgerState ==
    [][(/\ Len(inflight') = Len(inflight) + 1
        /\ inflight'[Len(inflight')].pc = "board") =>
          LET h == inflight'[Len(inflight')]
              seq == filteredRatings(ratings, h.roomId, h.questionId)
          IN /\ h.leaderboard = getLeaderboard(ratings, students, h.roomId,
                                               h.questionId)
             /\ \A i \in DOMAIN seq, j \in DOMAIN seq :
                    Triple(seq[i]) = Triple(seq[j]) => i = j]_vars

(***************************************************************************)
(* C21: whatever students were created and imported, no two stored         *)
(* students share a studentNumber and no two share an email; a create that *)
(* is answered 400 leaves the students as they were; and an import reports *)
(* imported + skipped = total, imported being the number of students it    *)
(* added.                                                                  *)
(***************************************************************************)
UniqueStudents(sts) ==
    \A a \in DOMAIN sts, b \in DOMAIN sts :
        (\/ sts[a].studentNumber = sts[b].studentNumber
         \/ sts[a].email = sts[b].email) => a = b

C21_StudentNumbersAndEmailsAreUnique ==
    [][/\ UniqueStudents(students')
       /\ (resp'.op = "createStudent" /\ resp'.status = 400) =>
              students' = students /\ studentCounter' = studentCounter
       /\ (resp'.op = "importStudents" /\ resp'.status = 200) =>
              /\ resp'.imported + resp'.skipped = resp'.total
              /\ DOMAIN students \subseteq DOMAIN students'
              /\ resp'.imported
                    = Cardinality((DOMAIN students') \ (DOMAIN students))]_vars

\* a file of two rows with one email was imported into a table that had a
\* student: one row went in, one was skipped
C21_Witness ==
    /\ resp.op = "importStudents" /\ resp.status = 200
    /\ resp.total = 2 /\ resp.imported = 1 /\ resp.skipped = 1
    /\ Cardinality(DOMAIN students) = 2

(***************************************************************************)
(* C22: when importPredefinedExcelFiles has run, no two stored students    *)
(* share a studentNumber or an email, and totalImported is the number of   *)
(* students it created.                                                    *)
(***************************************************************************)
C22_PredefinedImportKeepsStudentsUnique ==
    [][resp'.op = "importPredefinedExcelFiles" =>
          /\ UniqueStudents(students')
          /\ DOMAIN students \subseteq DOMAIN students'
          /\ resp'.totalImported
                = Cardinality((DOMAIN students') \ (DOMAIN students))]_vars

(***************************************************************************)
(* C23: a login attempt is let through (the strategy marks the student     *)
(* registered and hands it to req.login) only when the student is not      *)
(* registered at that moment, also when login attempts interleave at the   *)
(* strategy's awaits; and an attempt answered 401 leaves the students      *)
(* unchanged.                                                              *)
(***************************************************************************)
LetThrough(i) ==
    /\ i \in DOMAIN inflight /\ i \in DOMAIN inflight'
    /\ Len(inflight') = Len(inflight)
    /\ inflight[i].pc = "lookedUp" /\ inflight'[i].pc = "registered"

C23_OneLoginPerRegistration ==
    [][/\ \A i \in 1..MaxInFlight :
             LetThrough(i) =>
                 ~students[inflight[i].student.id].isRegistered
       /\ (resp'.op = "studentLogin" /\ resp'.status = 401 /\ resp' # resp) =>
              students' = students]_vars

(***************************************************************************)
(* C24: a request to a route that creates, imports, resets, updates,       *)
(* deletes, assigns or removes students, rooms, assignments or questions,  *)
(* sent by a caller who is not the logged-in admin, is answered 403 and    *)
(* leaves students, rooms, assignments, questions and ratings unchanged.   *)
(***************************************************************************)
NotAdminCallers == {c \in Callers : c.type # "admin"}

AdminRouteCalled(c) ==
    \/ \E data \in StudentInputs : CreateStudent(c, data)
    \/ \E rows \in ImportRows : ImportStudents(c, rows)
    \/ \E id \in StudentIdsIn : ResetStudent(c, id)
    \/ \E id \in StudentIdsIn : DeleteStudent(c, id)
    \/ \E data \in RoomInputs : CreateRoom(c, data)
    \/ \E id \in RoomIdsIn, data \in RoomInputs : UpdateRoom(c, id, data)
    \/ \E id \in RoomIdsIn : DeleteRoom(c, id)
    \/ \E roomId \in RoomIdsIn : AssignStudentToRoom(c, roomId, 1)
    \/ \E roomId \in RoomIdsIn : RemoveStudentFromRoom(c, roomId, 1)
    \/ \E data \in QuestionInputs : CreateQuestion(c, data)
    \/ \E id \in QuestionIdsIn, data \in QuestionInputs :
           UpdateQuestion(c, id, data)
    \/ \E id \in QuestionIdsIn : DeleteQuestion(c, id)

C24_AdminRoutesRejectOthers ==
    [][\/ resp'.status = 403 /\ UNCHANGED storageVars
       \/ \A c \in NotAdminCallers : ~AdminRouteCalled(c)]_vars

\* a student whose session outlived a rating has asked to delete the rated
\* question's room and was refused
C24_Witness ==
    /\ LastReply("deleteRoom", 403)
    /\ ratings # EmptyMap
    /\ [type |-> "student", id |-> 1] \in sessions
    /\ 1 \in DOMAIN rooms

(***************************************************************************)
(* C27: every ledger entry whose question exists carries the roomId of     *)
(* that question, so that the leaderboard of the question's room and the   *)
(* question counts every entry of the question.                            *)
(***************************************************************************)
C27_RatingRoomIsQuestionRoom ==
    \A id \in DOMAIN ratings :
        ratings[id].questionId \in DOMAIN questions =>
            ratings[id].roomId = questions[ratings[id].questionId].roomId

(***************************************************************************)
(* C28: every room assignment refers to a room and to a student that       *)
(* exist, also when the assign handler interleaves at its awaits with      *)
(* deletions of rooms and students.                                        *)
(***************************************************************************)
C28_AssignmentsReferToExisting ==
    \A a \in DOMAIN roomAssignments :
        /\ roomAssignments[a].roomId \in DOMAIN rooms
        /\ roomAssignments[a].studentId \in DOMAIN students

(***************************************************************************)
(* C30: a session set up by a student login is tagged 'student' and never  *)
(* passes the isAdmin check, whatever ids the students and the admin have; *)
(* and a rating sent on an admin session is refused with the ledger left   *)
(* as it was.                                                              *)
(***************************************************************************)
C30_StudentSessionsAreNeverAdmin ==
    [][/\ (resp'.op = "studentLogin" /\ resp'.status = 200) =>
              /\ \A c \in sessions' \ sessions : c.type = "student"
              /\ \E c \in sessions' :
                     /\ c.type = "student" /\ c.id \in DOMAIN students'
                     /\ students'[c.id].isRegistered
                     /\ ~(c.id \in DOMAIN students /\ students[c.id].isRegistered)
       /\ \A c \in sessions' :
              c.type = "student" =>
                  ~isAdmin(deserializeUser(c, students', users'))
       /\ \/ resp'.status = 403 /\ UNCHANGED storageVars
          \/ \A c \in {x \in Callers : x.type = "admin"}, body \in AllBodies :
                 ~SubmitRating(c, body)]_vars

\* student 1 holds a session beside the admin, user 1, whose rating has just
\* been refused
C30_Witness ==
    /\ [type |-> "student", id |-> 1] \in sessions
    /\ [type |-> "admin", id |-> 1] \in sessions
    /\ 1 \in DOMAIN students /\ 1 \in DOMAIN users
    /\ LastReply("submitRating", 403)

(***************************************************************************)
(* C25: on the rating page, once a rating of the page's student for a      *)
(* question is in the ledger, the question is in submittedQuestions and    *)
(* Submit Ratings is disabled while that question is the current one.      *)
(***************************************************************************)
C25_SubmittedQuestionStaysDisabled ==
    page.mounted =>
        \A id \in DOMAIN ratings :
            ratings[id].raterId = pageUser.id =>
                /\ ratings[id].questionId \in page.submittedQuestions
                /\ (/\ questionAt(page.currentQuestionIndex) # Undefined
                    /\ questionAt(page.currentQuestionIndex).id
                           = ratings[id].questionId) => ~submitEnabled(page)

(***************************************************************************)
(* C26: on the rating page, Submit Ratings over N selected students builds *)
(* N submissions for the current question, the k-th for the k-th student   *)
(* clicked with rank k; a click on a selected student leaves the selection *)
(* as it is; a change of the current question empties it; and no student   *)
(* is selected twice.                                                      *)
(***************************************************************************)
C26_RanksFollowClickOrder ==
    [][page.mounted =>
          /\ SubmitRatings =>
                 LET sent == SubSeq(page'.mutations, Len(page.mutations) + 1,
                                    Len(page'.mutations))
                 IN /\ Len(sent) = Len(page.selectedStudents)
                    /\ \A k \in DOMAIN sent :
                           /\ sent[k].variables.rank = k
                           /\ sent[k].variables.studentId
                                  = page.selectedStudents[k]
                           /\ sent[k].variables.questionId
                                  = questionAt(page.currentQuestionIndex).id
                           /\ sent[k].variables.roomId = pageRoomId
          /\ \A k \in DOMAIN page.selectedStudents :
                 HandleSelectStudent(page.selectedStudents[k]) =>
                     page'.selectedStudents = page.selectedStudents
          /\ page'.currentQuestionIndex # page.currentQuestionIndex =>
                 page'.selectedStudents = << >>
          /\ \A j, k \in DOMAIN page'.selectedStudents :
                 page'.selectedStudents[j] = page'.selectedStudents[k] => j = k
      ]_vars

\* the second student was clicked first, the first student second, and
\* Submit Ratings has built the two submissions
C26_Witness ==
    /\ page.mounted
    /\ Len(page.mutations) = 2
    /\ page.mutations[1].variables.studentId = 2
    /\ page.mutations[1].variables.rank = 1
    /\ page.mutations[2].variables.studentId = 1
    /\ page.mutations[2].variables.rank = 2
    /\ page.selectedStudents = <<2, 1>>

(***************************************************************************)
(* C29: on the rating page, currentQuestionIndex is an index of questions. *)
(***************************************************************************)
C29_CurrentQuestionIndexInRange ==
    page.mounted =>
        page.currentQuestionIndex \in 0..(Len(pageQuestions) - 1)

====
